---------------------------- MODULE Spec2Model ----------------------------
(***************************************************************************)
(* mioty web console: the EdgeCard watchdog (server/routes.ts) and the     *)
(* in-memory store it writes (MemStorage, shared/schema.ts).               *)
(*                                                                         *)
(* Text that the program processes (command output, XML element text) is   *)
(* a sequence of tokens: a word, a digit or a white-space character.       *)
(* Text that is only carried (log messages, names) is a TLA+ string.       *)
(*                                                                         *)
(* The server is one node.js process: code between two awaits on a child   *)
(* process (ssh, scp, bash) runs without interleaving, so an action is the *)
(* code from one such completion to the next spawn.                        *)
(***************************************************************************)
EXTENDS Integers, Sequences, FiniteSets, TLC

VARIABLES
    \* ---- MemStorage (shared/schema.ts) ----
    connection,          \* connections.get("default")
    baseStationConfig,   \* baseStationConfigs.get("default")
    baseStationStatus,   \* baseStationStatuses.get("default")
    systemInfo,          \* systemInfos.get("default")
    activityLogs,        \* the activityLogs array, index 1 is array index 0
    \* ---- the clock and the insertion counter of the log ----
    now,                 \* what new Date() returns
    logSeq,              \* entries inserted since the log was last emptied
    \* ---- MiotyWatchdog (server/routes.ts) ----
    wd,                  \* edgeCardIp, miotyCommands, setupCompleted, timers
    tasks,               \* the calls in flight, each with its position
    \* ---- the world outside the process ----
    env,                 \* the card, its service, the host's network profiles
    \* ---- bookkeeping of the checks ----
    hist,                \* what the last finished call did
    budget,              \* ticks and faults still allowed by the bounds
    \* ---- extractMiotyParams applied to a drawn input ----
    xmlData,
    extracted

vars == <<connection, baseStationConfig, baseStationStatus, systemInfo,
          activityLogs, now, logSeq, wd, tasks, env, hist, budget,
          xmlData, extracted>>

storageVars == <<connection, baseStationConfig, baseStationStatus, systemInfo>>
logVars     == <<activityLogs, now, logSeq>>
xmlVars     == <<xmlData, extracted>>

---------------------------------------------------------------------------
(* Bounds of the model *)

\* calls of autoSetupAndConnect and of watchdog by their timers
MaxAutoTicks == 2
MaxWatchdogTicks == 1
\* requests to the route handlers
MaxRequests == 1
\* commands that fail, probes that fail, times the service stops by itself
MaxFaults == 1
MaxProbeFailures == 2
MaxOutages == 1
\* the clock may advance this many times in the activity-log specification
MaxClock == 1
\* entries added between two clearings in the activity-log specification
MaxAdds == 100
\* clearings of the log in the activity-log specification
MaxClears == 1
\* invocations of the dispatcher script by the host's network manager
MaxDispatches == 3
\* chunks of stdout an ssh process writes in the remote-command specification
MaxChunks == 2

(* Program constants *)

\* "Keep only last 100 logs"
MaxLogs == 100
\* getActivityLogs(limit: number = 50)
DefaultLimit == 50

---------------------------------------------------------------------------
(* Sequences *)

\* Array.prototype.slice(0, n)
slice0(s, n) == IF n <= 0 THEN <<>>
                ELSE IF n >= Len(s) THEN s ELSE SubSeq(s, 1, n)

Min(a, b) == IF a <= b THEN a ELSE b

Range(s) == {s[i] : i \in 1..Len(s)}

---------------------------------------------------------------------------
(* MemStorage: the activity log *)

\* An InsertActivityLog: what a caller hands to addActivityLog.
LogItem(level, message, source) ==
    [level |-> level, message |-> message, source |-> source]

\* initializeDefaultData: four entries, the newest first, 0 / 45 / 75 / 105
\* seconds old. seq numbers the insertions (the program draws a random id).
defaultLogs ==
    << [seq |-> 3, timestamp |-> 3, level |-> "INFO",
        message |-> <<"Base station started successfully">>, source |-> "system"],
       [seq |-> 2, timestamp |-> 2, level |-> "CONN",
        message |-> <<"Connection established to EdgeCard">>, source |-> "connection"],
       [seq |-> 1, timestamp |-> 1, level |-> "INFO",
        message |-> <<"Certificate bstation.cer uploaded successfully">>, source |-> "certificate"],
       [seq |-> 0, timestamp |-> 0, level |-> "WARN",
        message |-> <<"TLS authentication required but certificate missing">>, source |-> "security"] >>

\* the clock at construction: the newest default entry carries it
InitNow == Len(defaultLogs) - 1

\* The log as one value: the array and the count of insertions.
LogState(logs, seq) == [logs |-> logs, seq |-> seq]

\* A plausible slip: push instead of unshift.
addActivityLog_push(L, item, t) ==
    LET activityLog == [seq |-> L.seq, timestamp |-> t, level |-> item.level,
                        message |-> item.message, source |-> item.source]
        pushed == Append(L.logs, activityLog)
    IN  LogState(IF Len(pushed) > MaxLogs THEN slice0(pushed, MaxLogs) ELSE pushed,
                 L.seq + 1)

\* addActivityLog: unshift the entry, then keep the first 100.
addActivityLog(L, item, t) ==
    LET activityLog == [seq |-> L.seq, timestamp |-> t, level |-> item.level,
                        message |-> item.message, source |-> item.source]
        unshifted == <<activityLog>> \o L.logs
    IN  LogState(IF Len(unshifted) > MaxLogs THEN slice0(unshifted, MaxLogs) ELSE unshifted,
                 L.seq + 1)

\* Several addActivityLog calls in a row, in the order of the sequence: each
\* entry goes to the front, so the new entries stand in reverse order before
\* the old ones, and keeping the first 100 after each call keeps the first 100
\* of the whole.
addAll(L, items, t) ==
    LET n == Len(items)
        entry(k) == addActivityLog(LogState(<<>>, L.seq + k - 1), items[k], t).logs[1]
        unshifted == [j \in 1..n |-> entry(n + 1 - j)] \o L.logs
    IN  LogState(IF Len(unshifted) > MaxLogs THEN slice0(unshifted, MaxLogs) ELSE unshifted,
                 L.seq + n)

\* clearActivityLogs
clearActivityLogs(L) == LogState(<<>>, 0)

\* Array.prototype.sort with the comparator b.timestamp - a.timestamp: a stable
\* sort, newest first. Timestamps lie in 0..maxT, so the entries of each
\* timestamp are taken in their present order, from the largest timestamp down.
RECURSIVE sortByTimestampDesc(_, _)
sortByTimestampDesc(logs, maxT) ==
    IF maxT < 0 THEN <<>>
    ELSE SelectSeq(logs, LAMBDA e : e.timestamp = maxT)
         \o sortByTimestampDesc(logs, maxT - 1)

\* getActivityLogs(limit): sorts the stored array in place and returns its
\* first `limit` entries.
getActivityLogs(logs, limit, maxT) ==
    LET sorted == sortByTimestampDesc(logs, maxT)
    IN  [stored |-> sorted, returned |-> slice0(sorted, limit)]

---------------------------------------------------------------------------
(* JavaScript values, as far as extractMiotyParams meets them *)

Undefined  == [t |-> "undefined", v |-> <<>>]
String(s)  == [t |-> "string", v |-> s]
TypeError  == [t |-> "TypeError", v |-> <<>>]

\* ToBoolean
Truthy(x) == CASE x.t \in {"undefined", "null"} -> FALSE
               [] x.t = "string" -> x.v # <<>>
               [] OTHER -> TRUE

\* a || b
Or(a, b) == IF Truthy(a) THEN a ELSE b

\* A plausible slip: == "true" after lower-casing, or any text at all.
StrictEqualsTrue_truthy(x) == Truthy(x)

\* x === "true"
StrictEqualsTrue(x) == x.t = "string" /\ x.v = <<"true">>

---------------------------------------------------------------------------
(* The parsed XML document *)

StringFields == {"uniqueBaseStationId", "baseStationName", "baseStationVendor",
                 "baseStationModel", "serviceCenterAddr", "serviceCenterPort",
                 "profile"}
BooleanFields == {"tlsAuthRequired", "tlsAllowInsecure"}
Fields == StringFields \cup BooleanFields

\* xml2js gives each child element as an array of its occurrences; a property
\* that is not there (undefined) is written <<>> here.
NoFields == [k \in Fields |-> <<>>]

\* The value of xmlData.BaseStationConfig: undefined, a string (an element with
\* text only; "" when empty) or an object with the child elements.
ConfigUndefined   == [t |-> "undefined", v |-> <<>>, f |-> NoFields]
ConfigString(s)   == [t |-> "string", v |-> s, f |-> NoFields]
ConfigObject(f)   == [t |-> "object", v |-> <<>>, f |-> f]

\* xmlData itself: null, undefined or an object.
Document(t, c) == [t |-> t, BaseStationConfig |-> c]

\* obj?.BaseStationConfig
optBaseStationConfig(x) ==
    IF x.t \in {"null", "undefined"} THEN ConfigUndefined ELSE x.BaseStationConfig

\* config.<k>: a TypeError on null or undefined, undefined on a string
getField(config, k) ==
    IF config.t \in {"null", "undefined"} THEN <<TypeError>>
    ELSE IF config.t = "object" THEN config.f[k] ELSE <<>>

\* arr?.[0]
optFirst(arr) == IF arr = <<>> THEN Undefined ELSE arr[1]

---------------------------------------------------------------------------
(* extractMiotyParams *)

\* "8080" as the text it is
Text8080 == <<"8", "0", "8", "0">>

\* the defaults of the || operators, which are also the catch block's record
Defaults ==
    [uniqueBaseStationId |-> String(<<"unknown">>),
     baseStationName     |-> String(<<"mioty-bsm">>),
     baseStationVendor   |-> String(<<"Miromico">>),
     baseStationModel    |-> String(<<"EDGE-GW-MY-868">>),
     serviceCenterAddr   |-> String(<<"localhost">>),
     serviceCenterPort   |-> String(Text8080),
     profile             |-> String(<<"EU1">>),
     tlsAuthRequired     |-> FALSE,
     tlsAllowInsecure    |-> FALSE]

\* A plausible slip: a default taken from the wrong line.
fieldOrDefault_swapped(config, k) ==
    Or(optFirst(getField(config, k)),
       IF k = "serviceCenterAddr" THEN Defaults["baseStationName"] ELSE Defaults[k])

\* config.<k>?.[0] || <default>
fieldOrDefault(config, k) == Or(optFirst(getField(config, k)), Defaults[k])

\* config.<k>?.[0] === "true"
fieldIsTrue(config, k) == StrictEqualsTrue(optFirst(getField(config, k)))

\* The try block: [threw, value].
extractTryBlock(x) ==
    LET bsc    == optBaseStationConfig(x)
        \* xmlData?.BaseStationConfig || {}
        config == IF Truthy([t |-> bsc.t, v |-> bsc.v]) THEN bsc ELSE ConfigObject(NoFields)
        reads  == {optFirst(getField(config, k)) : k \in Fields}
    IN  [threw |-> TypeError \in reads,
         value |-> [k \in Fields |->
                      IF k \in BooleanFields THEN fieldIsTrue(config, k)
                      ELSE fieldOrDefault(config, k)]]

\* extractMiotyParams: the try block's record, or the defaults when it threw.
\* The catch block logs (not awaited) and returns: it cannot throw.
extractMiotyParams(x) ==
    LET body == extractTryBlock(x)
    IN  IF body.threw THEN [threw |-> FALSE, value |-> Defaults]
        ELSE [threw |-> FALSE, value |-> body.value]

\* The two ExtendedLogger.log calls of extractMiotyParams are not awaited: each
\* inserts its entry at once and its details entry a microtask later.
extractLogHead == << LogItem("DEBUG", <<"Parsing XML parameters">>, "xml-parser"),
                     LogItem("INFO", <<"Extracted mioty parameters">>, "xml-parser") >>
extractLogTail == << LogItem("DEBUG", <<"xml-parser", " Details">>, "xml-parser"),
                     LogItem("DEBUG", <<"xml-parser", " Details">>, "xml-parser") >>

---------------------------------------------------------------------------
(* Text *)

WhiteSpace == {" ", "\n", "\t"}
Digits == {"0", "1", "2", "3", "4", "5", "6", "7", "8", "9"}

DigitValue(c) == CASE c = "0" -> 0 [] c = "1" -> 1 [] c = "2" -> 2 [] c = "3" -> 3
                   [] c = "4" -> 4 [] c = "5" -> 5 [] c = "6" -> 6 [] c = "7" -> 7
                   [] c = "8" -> 8 [] c = "9" -> 9

RECURSIVE trimStart(_)
trimStart(s) == IF s # <<>> /\ Head(s) \in WhiteSpace THEN trimStart(Tail(s)) ELSE s

RECURSIVE trimEnd(_)
trimEnd(s) == IF s # <<>> /\ s[Len(s)] \in WhiteSpace
              THEN trimEnd(SubSeq(s, 1, Len(s) - 1)) ELSE s

\* String.prototype.trim
trim(s) == trimEnd(trimStart(s))

\* the leading digits of s, as a number; acc is the value read so far
RECURSIVE readDigits(_, _)
readDigits(s, acc) ==
    IF s # <<>> /\ Head(s) \in Digits
    THEN readDigits(Tail(s), 10 * acc + DigitValue(Head(s)))
    ELSE acc

\* parseInt(x): white space is skipped, a sign is read, then digits up to the
\* first token that is none; NaN when there is no digit. An object is
\* converted to "[object Object]" first, which has none.
parseInt(x) ==
    IF x.t # "string" THEN [nan |-> TRUE, n |-> 0]
    ELSE LET s0 == trimStart(x.v)
             neg == s0 # <<>> /\ Head(s0) = "-"
             s1 == IF s0 # <<>> /\ Head(s0) \in {"-", "+"} THEN Tail(s0) ELSE s0
         IN  IF s1 = <<>> \/ Head(s1) \notin Digits THEN [nan |-> TRUE, n |-> 0]
             ELSE [nan |-> FALSE,
                   n |-> IF neg THEN 0 - readDigits(s1, 0) ELSE readDigits(s1, 0)]

\* A plausible slip: ?? in place of ||, or a test for NaN alone.
parseIntOr8080_nanOnly(x) ==
    LET p == parseInt(x) IN IF p.nan THEN 8080 ELSE p.n

\* parseInt(x) || 8080: NaN and 0 are falsy
parseIntOr8080(x) ==
    LET p == parseInt(x) IN IF p.nan \/ p.n = 0 THEN 8080 ELSE p.n

---------------------------------------------------------------------------
(* MemStorage: connection, configuration, status, system info *)

NullV   == [t |-> "null"]
Date(n) == [t |-> "date", ms |-> n]
Bool(b) == [t |-> "boolean", b |-> b]
Text(s) == [t |-> "string", s |-> s]
\* a property that the caller's object does not have
Missing == [t |-> "undefined"]

\* a ?? b
Nullish(a) == a.t \in {"null", "undefined"}
Coalesce(a, b) == IF Nullish(a) THEN b ELSE a

PinnedUniqueId == String(<<"9C-65-F9-FF-FE-55-44-33">>)

\* candidate addresses of discoverAndSetup, in list order
possibleIPs == <<"172.30.1.2", "192.168.1.100", "192.168.4.1", "10.0.0.1">>

defaultConnection == [status |-> "disconnected", edgeCardIp |-> "172.30.1.2"]

defaultConfig ==
    [uniqueBaseStationId |-> PinnedUniqueId,
     baseStationName     |-> String(<<"Sentinum Edge mioty">>),
     baseStationVendor   |-> String(<<"Miromico">>),
     baseStationModel    |-> String(<<"EDGE-GW-MY-868">>),
     serviceCenterAddr   |-> String(<<"eu3.loriot.io">>),
     serviceCenterPort   |-> 727,
     profile             |-> String(<<"EU1">>),
     tlsAuthRequired     |-> Bool(TRUE),
     writer              |-> "initializeDefaultData"]

defaultStatus ==
    [status       |-> "running",
     autoStart    |-> Bool(TRUE),
     lastStarted  |-> Date(InitNow),
     lastStopped  |-> NullV,
     uptime       |-> Text(<<"2d 14h 30m">>),
     memoryUsage  |-> Text(<<"45%">>),
     writer       |-> "initializeDefaultData"]

defaultSystemInfo ==
    [edgeCardModel |-> Text(<<"EDGE-GW-MY-868">>), lastSync |-> Date(InitNow)]

\* updateConnectionStatus
updateConnectionStatus(conn, status) == [conn EXCEPT !.status = status]

\* updateBaseStationConfig: the record is rebuilt from the caller's fields
\* (tlsAllowInsecure is not among them). `who` names the caller, for the checks.
updateBaseStationConfig(existing, config, who) ==
    [uniqueBaseStationId |-> config.uniqueBaseStationId,
     baseStationName     |-> config.baseStationName,
     baseStationVendor   |-> config.baseStationVendor,
     baseStationModel    |-> config.baseStationModel,
     serviceCenterAddr   |-> config.serviceCenterAddr,
     serviceCenterPort   |-> config.serviceCenterPort,
     \* config.profile || "EU1"
     profile             |-> Or(config.profile, String(<<"EU1">>)),
     \* config.tlsAuthRequired || null
     tlsAuthRequired     |-> IF config.tlsAuthRequired = Bool(TRUE) THEN Bool(TRUE) ELSE NullV,
     writer              |-> who]

\* The fields of an InsertBaseStationStatus a caller may leave out.
StatusWrite(status, autoStart, lastStarted, lastStopped, uptime, memoryUsage) ==
    [status |-> status, autoStart |-> autoStart, lastStarted |-> lastStarted,
     lastStopped |-> lastStopped, uptime |-> uptime, memoryUsage |-> memoryUsage]

\* A plausible slip: the stored value is preferred to the caller's.
updateBaseStationStatus_existingFirst(existing, w, who) ==
    [status      |-> IF existing.status # "" THEN existing.status ELSE w.status,
     autoStart   |-> Coalesce(existing.autoStart, w.autoStart),
     lastStarted |-> Coalesce(existing.lastStarted, w.lastStarted),
     lastStopped |-> Coalesce(existing.lastStopped, w.lastStopped),
     uptime      |-> Coalesce(existing.uptime, w.uptime),
     memoryUsage |-> Coalesce(existing.memoryUsage, w.memoryUsage),
     writer      |-> who]

\* updateBaseStationStatus: every field is the caller's, or the stored one
\* where the caller's is null or undefined (status: where it is empty).
updateBaseStationStatus(existing, w, who) ==
    LET undef(v) == IF v.t = "undefined" THEN NullV ELSE v
    IN
    [status      |-> IF w.status # "" THEN w.status
                     ELSE IF existing.status # "" THEN existing.status ELSE "stopped",
     autoStart   |-> undef(Coalesce(w.autoStart, existing.autoStart)),
     lastStarted |-> undef(Coalesce(w.lastStarted, existing.lastStarted)),
     lastStopped |-> undef(Coalesce(w.lastStopped, existing.lastStopped)),
     uptime      |-> undef(Coalesce(w.uptime, existing.uptime)),
     memoryUsage |-> undef(Coalesce(w.memoryUsage, existing.memoryUsage)),
     writer      |-> who]

\* updateSystemInfo, for the two fields the watchdog writes
updateSystemInfo(existing, edgeCardModel, lastSync) ==
    [edgeCardModel |-> Coalesce(edgeCardModel, existing.edgeCardModel),
     lastSync      |-> Coalesce(lastSync, existing.lastSync)]

---------------------------------------------------------------------------
(* ExtendedLogger *)

\* ExtendedLogger.log: the entry, and a DEBUG entry when details are given
ExtendedLog(level, message, source, details) ==
    IF details
    THEN << LogItem(level, message, source),
            LogItem("DEBUG", <<source, " Details">>, source) >>
    ELSE << LogItem(level, message, source) >>

\* ExtendedLogger.logStep
logStep(step, status, details) ==
    ExtendedLog(IF status = "ERROR" THEN "ERROR" ELSE "INFO",
                <<status, ": ", step>>, "automation", details)

\* ExtendedLogger.logCommand
logCommand(command) == ExtendedLog("DEBUG", <<"Command: ", command>>, "ssh", TRUE)

\* the ERROR entries among items
ErrorCount(items) == Cardinality({n \in 1..Len(items) : items[n].level = "ERROR"})

---------------------------------------------------------------------------
(* The edge card and the host, as the commands of the program see them *)

ServiceStates == {"active", "inactive", "failed"}

\* A command's result: what it wrote to stdout and its exit code.
Exit(stdout, code) == [stdout |-> stdout, code |-> code]

\* echo '<word>'
echo(word) == Exit(<<word, "\n">>, 0)

\* a || b in the shell: b runs when a failed, and stdout holds what both wrote
ShellOr(a, b) == IF a.code = 0 THEN a ELSE Exit(a.stdout \o b.stdout, b.code)

\* systemctl is-active <unit>: prints the state, exits 0 when it is "active"
\* and 3 otherwise (2>/dev/null hides stderr only)
systemctlIsActive(service) == Exit(<<service, "\n">>, IF service = "active" THEN 0 ELSE 3)

\* systemctl is-enabled <unit>: prints enabled or disabled, exits 0 or 1
systemctlIsEnabled(enabled) ==
    IF enabled THEN Exit(<<"enabled", "\n">>, 0) ELSE Exit(<<"disabled", "\n">>, 1)

\* ps | grep mioty | grep -v grep >/dev/null && echo 'active' || echo 'inactive'
psGrepMioty(service) == IF service = "active" THEN echo("active") ELSE echo("inactive")

\* the command line of getMiotyStatus
cmdGetMiotyStatus(e) == ShellOr(systemctlIsActive(e.service), echo("inactive"))

\* the command line of getEdgeCardConfig's status query
cmdConfigStatus(e) == ShellOr(systemctlIsActive(e.service), psGrepMioty(e.service))

\* the command line of getEdgeCardConfig's auto-start query
cmdIsEnabled(e) == ShellOr(systemctlIsEnabled(e.enabled), echo("unknown"))

\* executeSSHCommand: resolves with the trimmed stdout when ssh closes with
\* code 0 (the remote command's exit code); rejects on any other code, on a
\* spawn error and on the timeout. `transport` is FALSE when ssh itself failed.
executeSSHCommand(transport, result) ==
    IF transport /\ result.code = 0
    THEN [ok |-> TRUE, out |-> trim(result.stdout)]
    ELSE [ok |-> FALSE, out |-> <<>>]

\* A plausible slip: the catch block rethrows.
getMiotyStatus_rethrow(transport, e) ==
    LET r == executeSSHCommand(transport, cmdGetMiotyStatus(e))
    IN  IF r.ok THEN [threw |-> FALSE, value |-> r.out]
        ELSE [threw |-> TRUE, value |-> <<>>]

\* MiotyCliCommands.getMiotyStatus: the command's output, "inactive" when
\* executeSSHCommand rejected
getMiotyStatus(transport, e) ==
    LET r == executeSSHCommand(transport, cmdGetMiotyStatus(e))
    IN  IF r.ok THEN [threw |-> FALSE, value |-> r.out]
        ELSE [threw |-> FALSE, value |-> <<"inactive">>]

---------------------------------------------------------------------------
(* MiotyCliCommands: host network provisioning and the remote service *)

RECURSIVE Repeat(_, _)
Repeat(items, n) == IF n <= 0 THEN <<>> ELSE items \o Repeat(items, n - 1)

\* checkConnectionExists: counts the profiles nmcli lists under the name;
\* FALSE when the command failed
checkConnectionExists(ok, e) ==
    IF ok
    THEN [exists |-> e.profiles > 0,
          items  |-> ExtendedLog("DEBUG",
                        <<"Connection check: mioty found ", ToString(e.profiles), " times">>,
                        "networking", FALSE)]
    ELSE [exists |-> FALSE,
          items  |-> ExtendedLog("DEBUG", <<"Connection check failed">>, "networking", FALSE)]

\* checkConnectionUp: warns and goes on when the profile is not there
checkConnectionUp(ok, e) ==
    LET c == checkConnectionExists(ok, e)
    IN  c.items \o (IF c.exists THEN <<>>
                    ELSE ExtendedLog("WARN", <<"Connection not detected - proceeding anyway">>,
                                     "networking", FALSE))

\* getInterface: the first of four methods that prints a name wins (m says
\* which, 0 when none does); eth0 otherwise. A failing method is skipped.
getInterface(m) ==
    ExtendedLog("DEBUG", <<"Searching for network interfaces...">>, "networking", FALSE)
    \o Repeat(ExtendedLog("DEBUG", <<"Method returned empty result">>, "networking", FALSE),
              IF m = 0 THEN 4 ELSE m - 1)
    \o (IF m > 0
        THEN ExtendedLog("INFO", <<"Found interface using method ", ToString(m)>>,
                         "networking", FALSE)
        ELSE ExtendedLog("DEBUG", <<"Available interfaces:">>, "networking", TRUE)
             \o ExtendedLog("WARN", <<"Using fallback interface: eth0">>, "networking", FALSE))

\* INTERNAL_IF: the name the winning method printed, eth0 when none did
internalIf(m) == CASE m = 1 -> "enx1" [] m = 2 -> "eth1" [] m = 3 -> "wlan0"
                   [] m = 4 -> "dummy0" [] OTHER -> "eth0"

\* the host's packet filter: how many rules with the comment "mioty" of each
\* of the three kinds it holds, and /proc/sys/net/ipv4/ip_forward
NoRules  == [forward |-> 0, dns |-> 0, masq |-> 0, ipForward |-> FALSE]
AllRules == [forward |-> 1, dns |-> 1, masq |-> 1, ipForward |-> TRUE]

\* iptables-save | grep -q "mioty": exit 0 when a line holds the name
grepTag(fw) == IF fw.forward + fw.dns + fw.masq > 0 THEN 0 ELSE 1

\* A plausible slip: the rules are inserted without looking for the tag.
dispatcherScript_unguarded(scriptIf, interface, fw, oks) ==
    IF interface = scriptIf
    THEN [forward   |-> fw.forward + (IF oks[1] THEN 1 ELSE 0),
          dns       |-> fw.dns + (IF oks[2] THEN 1 ELSE 0),
          masq      |-> fw.masq + (IF oks[3] THEN 1 ELSE 0),
          ipForward |-> TRUE]
    ELSE fw

\* The script setupFirewallScript writes, run with $1 = interface; scriptIf is
\* the INTERNAL_IF written into it. oks[n] says whether the n-th iptables
\* command succeeded (the script goes on when one fails).
dispatcherScript(scriptIf, interface, fw, oks) ==
    IF interface = scriptIf
    THEN IF grepTag(fw) = 1
         THEN [forward   |-> fw.forward + (IF oks[1] THEN 1 ELSE 0),
               dns       |-> fw.dns + (IF oks[2] THEN 1 ELSE 0),
               masq      |-> fw.masq + (IF oks[3] THEN 1 ELSE 0),
               ipForward |-> TRUE]
         ELSE [fw EXCEPT !.ipForward = TRUE]
    ELSE fw

\* The commands of setupConnection that can make it throw, in the order they
\* are run: 1 the profile creation, 2..8 the seven modify commands, 9..12 the
\* four commands installing the dispatcher script, 13 the reload. 0: none fails.
SetupCommands == 1..13
CmdAdd == {1}
CmdModify == 2..8
CmdFirewall == 9..12
CmdReload == {13}

\* setupConnection up to the existence check: interface detection, external
\* interface, checkConnectionExists. None of these can make it throw.
setupConnectionDetect(checkOk, e) ==
    LET c == checkConnectionExists(checkOk, e)
    IN  [exists |-> c.exists,
         items  |-> logStep("Network Connection Setup", "START", FALSE)
                    \o logStep("Interface Detection", "START", FALSE)
                    \o getInterface(e.ifaceMethod)
                    \o logStep("Interface Detection", "SUCCESS", TRUE)
                    \o ExtendedLog("INFO", <<"External interface">>, "networking", FALSE)
                    \o c.items
                    \o ExtendedLog("INFO", <<"Connection exists: ", ToString(c.exists)>>,
                                   "networking", FALSE)]

\* A plausible slip: the catch block logs and does not rethrow.
setupConnectionThrows_swallowed(f) == FALSE

\* the catch block of setupConnection logs and throws a new Error
setupConnectionThrows(f) == f # 0

\* setupConnection from the existence check on. f is the command that fails
\* (0: none). The profile is created only when the check found none.
setupConnectionApply(exists, f, e) ==
    LET create == IF exists THEN <<>>
                  ELSE logStep("Creating NetworkManager Connection", "START", FALSE)
                       \o (IF f \in CmdAdd THEN <<>>
                           ELSE logCommand("nmcli connection add")
                                \o logStep("Creating NetworkManager Connection", "SUCCESS", FALSE))
        created == ~exists /\ f \notin CmdAdd
        modified == IF f \in CmdModify THEN f - 2 ELSE 7
        modify == logStep("Configuring Network Settings", "START", FALSE)
                  \o Repeat(logCommand("nmcli connection modify"), modified)
                  \o (IF f \in CmdModify THEN <<>>
                      ELSE logStep("Configuring Network Settings", "SUCCESS", FALSE))
        firewall == logStep("Setting up Firewall Rules", "START", FALSE)
                    \o (IF f \in CmdFirewall THEN <<>>
                        ELSE logStep("Setting up Firewall Rules", "SUCCESS", FALSE))
        reload == IF f \in CmdReload THEN <<>>
                  ELSE logCommand("nmcli connection reload")
                       \o logStep("Network Connection Setup", "SUCCESS", FALSE)
        caught == logStep("Network Connection Setup", "ERROR", TRUE)
    IN  [ok       |-> ~setupConnectionThrows(f),
         profiles |-> IF created THEN e.profiles + 1 ELSE e.profiles,
         \* setupFirewallScript: the script is in dispatcher.d once mv has run
         script   |-> IF f = 0 \/ f \in CmdReload THEN internalIf(e.ifaceMethod) ELSE e.script,
         items    |-> create
                      \o (IF f \in CmdAdd THEN caught
                          ELSE modify
                          \o (IF f \in CmdModify THEN caught
                              ELSE firewall
                              \o (IF f \in CmdFirewall THEN caught
                                  ELSE reload
                                  \o (IF f \in CmdReload THEN caught ELSE <<>>))))]

\* startConnection: nmcli connection up
startConnection(checkOk, cmdOk, e) ==
    [ok    |-> cmdOk,
     items |-> logStep("Starting Network Connection", "START", FALSE)
               \o checkConnectionExists(checkOk, e).items
               \o (IF cmdOk
                   THEN logCommand("nmcli connection up")
                        \o logStep("Starting Network Connection", "SUCCESS", FALSE)
                   ELSE logStep("Starting Network Connection", "ERROR", TRUE))]

\* enableConnection: nmcli connection modify ... autoconnect yes
enableConnection(checkOk, cmdOk, e) ==
    [ok    |-> cmdOk,
     items |-> logStep("Enabling Auto-Connect", "START", FALSE)
               \o checkConnectionExists(checkOk, e).items
               \o (IF cmdOk
                   THEN logCommand("nmcli connection modify autoconnect")
                        \o logStep("Enabling Auto-Connect", "SUCCESS", FALSE)
                   ELSE logStep("Enabling Auto-Connect", "ERROR", TRUE))]

\* enablePf: systemctl enable mioty_bs on the card
enablePf(checkOk, sshOk, e) ==
    [ok      |-> sshOk,
     enabled |-> IF sshOk THEN TRUE ELSE e.enabled,
     items   |-> logStep("Enabling mioty_bs AutoStart", "START", FALSE)
                 \o checkConnectionUp(checkOk, e)
                 \o (IF sshOk
                     THEN logCommand("systemctl enable mioty_bs")
                          \o logStep("Enabling mioty_bs AutoStart", "SUCCESS", FALSE)
                     ELSE logStep("Enabling mioty_bs AutoStart", "ERROR", TRUE))]

\* startPf: systemctl start mioty_bs on the card
startPf(checkOk, sshOk, e) ==
    [ok      |-> sshOk,
     service |-> IF sshOk THEN "active" ELSE e.service,
     items   |-> logStep("Starting mioty_bs Service", "START", FALSE)
                 \o checkConnectionUp(checkOk, e)
                 \o (IF sshOk
                     THEN logCommand("systemctl start mioty_bs")
                          \o logStep("Starting mioty_bs Service", "SUCCESS", FALSE)
                     ELSE logStep("Starting mioty_bs Service", "ERROR", TRUE))]

\* performCompleteSetup runs these in this order
SetupOrder == <<"setupConnection", "startConnection", "enableConnection",
                "enablePf", "startPf">>

---------------------------------------------------------------------------
(* Calls in flight *)

NoTask == [kind |-> "none"]

NoData == [miotyStatus |-> "stopped", autoStart |-> FALSE, config |-> Defaults]

\* What a call learned from getMiotyStatus, with what the card was then.
NoQuery == [asked |-> FALSE, transport |-> FALSE, service |-> "active",
            threw |-> FALSE, value |-> <<>>]

\* A call of autoSetupAndConnect, of watchdog or of a route handler, with its
\* position (pc) and the values it holds. For the checks it also carries what
\* it has done so far: the addresses it probed and those that answered, the
\* provisioning steps that succeeded in its present run, whether a command
\* failed, the ERROR entries it logged, whether it sent the start command.
NewTask(kind, pc) ==
    [kind |-> kind, pc |-> pc,
     idx |-> 0,                  \* discoverAndSetup: position in possibleIPs
     ctx |-> "none",             \* who called performCompleteSetup
     exists |-> FALSE,           \* setupConnection: connectionExists
     ip |-> "null",              \* the address the call talks to
     data |-> NoData,            \* getEdgeCardConfig: the values read so far
     xmlOk |-> FALSE,            \* getEdgeCardConfig: the XML was fetched and parsed
     query |-> NoQuery,          \* watchdog: the getMiotyStatus call
     probed |-> <<>>, answered |-> <<>>, steps |-> <<>>,
     failed |-> FALSE,           \* a command of this call failed
     caught |-> 0,               \* catch blocks entered below the top-level call
     errs |-> 0,                 \* ERROR entries this call logged
     startIssued |-> FALSE,      \* watchdog: startPf was called
     levels |-> <<>>,            \* watchdog: levels logged from the query on
     stored |-> "none"]          \* watchdog: the status it stored

Slots == DOMAIN tasks

\* A plausible slip: a busy flag, so that a tick is skipped while a call is
\* in flight.
Free_whenIdle(i) == i = 1 /\ \A j \in Slots : tasks[j] = NoTask

\* a new call takes the first free place
Free(i) == tasks[i] = NoTask /\ \A j \in Slots : j < i => tasks[j] # NoTask

\* the calls of a kind: those in flight and the one that ended last
Calls(kind) == {c \in {tasks[i] : i \in Slots} \cup {hist.last} : c.kind = kind}

\* no call is in flight
Idle == \A i \in Slots : tasks[i] = NoTask

At(i, kind, pc) == tasks[i] # NoTask /\ tasks[i].kind = kind /\ tasks[i].pc = pc

CurLog == LogState(activityLogs, logSeq)

\* the log after the items, and the call after writing them
Logged(items) == addAll(CurLog, items, now)
Wrote(t, items) == [t EXCEPT !.errs = @ + ErrorCount(items)]

SetLog(L) == activityLogs' = L.logs /\ logSeq' = L.seq /\ now' = now

\* the call in place i goes on as t; h is the bookkeeping after the step
Continue(i, t, h) == /\ tasks' = [tasks EXCEPT ![i] = t]
                     /\ hist' = h

\* the call in place i is over: it returned, or it rejected
End(i, t, how, h) == /\ tasks' = [tasks EXCEPT ![i] = NoTask]
                     /\ hist' = [h EXCEPT !.last = [t EXCEPT !.pc = how]]

\* A command may fail only as often as the bound on faults allows.
Faults(oks) == Cardinality({n \in 1..Len(oks) : ~oks[n]})
MayFail(oks) == Faults(oks) <= budget.faults
SpendFaults(oks) == budget' = [budget EXCEPT !.faults = @ - Faults(oks)]
SpendTick(kind) == budget' = [budget EXCEPT ![kind] = @ - 1]
Failing(t, oks) == [t EXCEPT !.failed = @ \/ Faults(oks) > 0]

---------------------------------------------------------------------------
(* MiotyWatchdog: start, and the discovery and provisioning tick *)

\* start(): a timeout for the first autoSetupAndConnect and the two intervals
Start ==
    /\ ~wd.started
    /\ wd' = [wd EXCEPT !.started = TRUE, !.startupTimeout = TRUE,
                        !.connectionInterval = TRUE, !.watchdogInterval = TRUE]
    /\ SetLog(Logged(ExtendedLog("INFO",
            <<"Complete mioty-cli Automation System started">>, "startup", FALSE)))
    /\ UNCHANGED <<storageVars, tasks, env, hist, budget, xmlVars>>

\* A plausible slip: the catch block of autoSetupAndConnect rethrows.
autoSetupCatch_rethrow(items) ==
    [how |-> "rejected",
     items |-> items \o ExtendedLog("WARN", <<"AutoSetup attempt failed">>, "automation", FALSE)]

\* the catch block of autoSetupAndConnect: a WARN entry, and the call returns
autoSetupCatch(items) ==
    [how |-> "returned",
     items |-> items \o ExtendedLog("WARN", <<"AutoSetup attempt failed">>, "automation", FALSE)]

\* the catch block in the loop of discoverAndSetup: continue with the next
\* address; after the last one the pass, and the call, are over
discoverCatch(t) ==
    IF t.idx < Len(possibleIPs)
    THEN [over |-> FALSE, task |-> [t EXCEPT !.pc = "probe", !.idx = @ + 1, !.steps = <<>>]]
    ELSE [over |-> TRUE, task |-> t]

\* autoSetupAndConnect is called by a timer: by the timeout (2 s) first, by
\* the interval (10 s) from then on
AutoSetupAndConnect(i) ==
    /\ Free(i)
    /\ budget.auto > 0
    /\ \E timer \in {"startupTimeout", "connectionInterval"} :
          /\ wd[timer]
          /\ timer = "connectionInterval" => ~wd.startupTimeout
          /\ LET fired == IF timer = "startupTimeout"
                          THEN [wd EXCEPT !.startupTimeout = FALSE] ELSE wd
             IN
             IF connection.status # "connected"
             THEN \* discoverAndSetup: the first address is probed
                  /\ wd' = fired
                  /\ Continue(i, [NewTask("auto", "probe") EXCEPT !.idx = 1, !.ctx = "discover"], hist)
                  /\ UNCHANGED logVars
             ELSE LET ip == connection.edgeCardIp
                      w1 == [fired EXCEPT !.edgeCardIp = ip,
                                          !.miotyCommands = IF @ = "null" THEN ip ELSE @]
                      items == ExtendedLog("INFO",
                                   <<"Triggering automatic mioty-cli setup (connection exists)">>,
                                   "automation", FALSE)
                               \o logStep("Complete mioty-cli Automation Setup", "START", TRUE)
                  IN  /\ wd' = w1
                      /\ IF ~w1.setupCompleted
                         THEN /\ SetLog(Logged(items))
                              /\ Continue(i, [NewTask("auto", "setupConnection")
                                                EXCEPT !.ctx = "connected", !.ip = w1.miotyCommands], hist)
                         ELSE /\ UNCHANGED logVars
                              /\ End(i, NewTask("auto", "start"), "returned", hist)
    /\ SpendTick("auto")
    /\ UNCHANGED <<storageVars, env, xmlVars>>

\* the probe of discoverAndSetup comes back
Probe(i) ==
    /\ At(i, "auto", "probe")
    /\ \E ok \in BOOLEAN :
          /\ ~ok => budget.probes > 0
          /\ budget' = IF ok THEN budget ELSE [budget EXCEPT !.probes = @ - 1]
          /\ LET ip == possibleIPs[tasks[i].idx]
                 t  == [tasks[i] EXCEPT !.probed = Append(@, ip),
                                        !.answered = IF ok THEN Append(@, ip) ELSE @,
                                        !.failed = @ \/ ~ok]
                 conn == LogItem("CONN", <<"EdgeCard discovered at ", ip>>, "watchdog")
             IN
             IF ~ok
             THEN LET c == discoverCatch(t)
                  IN  /\ IF c.over THEN End(i, c.task, "returned", hist) ELSE Continue(i, c.task, hist)
                      /\ UNCHANGED <<wd, connection, logVars>>
             ELSE /\ wd' = [wd EXCEPT !.edgeCardIp = ip, !.miotyCommands = ip]
                  /\ IF ~wd.setupCompleted
                     THEN LET items == <<conn>> \o logStep("Complete mioty-cli Automation Setup", "START", TRUE)
                          IN  /\ SetLog(Logged(items))
                              /\ Continue(i, [t EXCEPT !.pc = "setupConnection", !.ip = ip, !.steps = <<>>], hist)
                              /\ connection' = connection
                     ELSE /\ SetLog(Logged(<<conn>>))
                          /\ connection' = updateConnectionStatus(connection, "connected")
                          /\ End(i, t, "returned", hist)
    /\ UNCHANGED <<baseStationConfig, baseStationStatus, systemInfo, env, xmlVars>>

\* performCompleteSetup threw: its catch block logs and rethrows, and the
\* caller's catch block takes over
SetupThrew(i, t, items) ==
    LET all == items \o logStep("Complete mioty-cli Automation Setup", "ERROR", TRUE)
        h == [hist EXCEPT !.setupThrew = TRUE]
    IN  IF t.ctx = "discover"
        THEN LET c == discoverCatch([t EXCEPT !.caught = @ + 1])
             IN  /\ SetLog(Logged(all))
                 /\ IF c.over THEN End(i, Wrote(c.task, all), "returned", h)
                    ELSE Continue(i, Wrote(c.task, all), h)
        ELSE LET c == autoSetupCatch(all)
             IN  /\ SetLog(Logged(c.items))
                 /\ End(i, Wrote([t EXCEPT !.caught = @ + 1], c.items), c.how, h)

\* a step of performCompleteSetup before the last is over: r is what it did
SetupStep(i, t, r, name, next) ==
    /\ IF r.ok
       THEN /\ SetLog(Logged(r.items))
            /\ Continue(i, Wrote([t EXCEPT !.pc = next, !.steps = Append(@, name)], r.items), hist)
       ELSE SetupThrew(i, t, r.items)
    /\ UNCHANGED <<wd, storageVars, xmlVars>>

\* setupConnection, up to the existence check
SetupConnectionDetect(i) ==
    /\ At(i, "auto", "setupConnection")
    /\ \E checkOk \in BOOLEAN :
          /\ MayFail(<<checkOk>>)
          /\ SpendFaults(<<checkOk>>)
          /\ LET r == setupConnectionDetect(checkOk, env)
                 t == Failing(tasks[i], <<checkOk>>)
             IN  /\ SetLog(Logged(r.items))
                 /\ Continue(i, Wrote([t EXCEPT !.pc = "setupConnection:apply",
                                                !.exists = r.exists], r.items), hist)
    /\ UNCHANGED <<wd, storageVars, env, xmlVars>>

\* setupConnection, from the existence check on
SetupConnectionApply(i) ==
    /\ At(i, "auto", "setupConnection:apply")
    /\ \E f \in {0} \cup SetupCommands :
          /\ f \in CmdAdd => ~tasks[i].exists
          /\ MayFail(<<f = 0>>)
          /\ SpendFaults(<<f = 0>>)
          /\ LET r == setupConnectionApply(tasks[i].exists, f, env)
             IN  /\ env' = [env EXCEPT !.profiles = r.profiles, !.script = r.script]
                 /\ SetupStep(i, Failing(tasks[i], <<f = 0>>), r, "setupConnection", "startConnection")

StartConnection(i) ==
    /\ At(i, "auto", "startConnection")
    /\ \E checkOk, cmdOk \in BOOLEAN :
          /\ MayFail(<<checkOk, cmdOk>>)
          /\ SpendFaults(<<checkOk, cmdOk>>)
          /\ SetupStep(i, Failing(tasks[i], <<checkOk, cmdOk>>),
                       startConnection(checkOk, cmdOk, env), "startConnection", "enableConnection")
    /\ env' = env

EnableConnection(i) ==
    /\ At(i, "auto", "enableConnection")
    /\ \E checkOk, cmdOk \in BOOLEAN :
          /\ MayFail(<<checkOk, cmdOk>>)
          /\ SpendFaults(<<checkOk, cmdOk>>)
          /\ SetupStep(i, Failing(tasks[i], <<checkOk, cmdOk>>),
                       enableConnection(checkOk, cmdOk, env), "enableConnection", "enablePf")
    /\ env' = env

EnablePf(i) ==
    /\ At(i, "auto", "enablePf")
    /\ \E checkOk, sshOk \in BOOLEAN :
          /\ MayFail(<<checkOk, sshOk>>)
          /\ SpendFaults(<<checkOk, sshOk>>)
          /\ LET r == enablePf(checkOk, sshOk, env)
             IN  /\ env' = [env EXCEPT !.enabled = r.enabled]
                 /\ SetupStep(i, Failing(tasks[i], <<checkOk, sshOk>>), r, "enablePf", "startPf")

\* A plausible slip: the assignment of the flag is left out.
setupCompletedAfter_never(steps) == FALSE

\* A plausible slip: the flag is set before the last step has run.
setupCompletedAfter_early(steps) == Len(steps) >= Len(SetupOrder) - 1

\* this.setupCompleted = true stands after the five awaited steps
setupCompletedAfter(steps) == Len(steps) = Len(SetupOrder)

\* startPf as the last step of performCompleteSetup
SetupStartPf(i) ==
    /\ At(i, "auto", "startPf")
    /\ \E checkOk, sshOk \in BOOLEAN :
          /\ MayFail(<<checkOk, sshOk>>)
          /\ SpendFaults(<<checkOk, sshOk>>)
          /\ LET r == startPf(checkOk, sshOk, env)
                 t0 == Failing(tasks[i], <<checkOk, sshOk>>)
                 steps == IF r.ok THEN Append(t0.steps, "startPf") ELSE t0.steps
                 done == setupCompletedAfter(steps)
                 items == r.items \o (IF r.ok
                             THEN logStep("Complete mioty-cli Automation Setup", "SUCCESS", TRUE)
                             ELSE <<>>)
                 t == Wrote([t0 EXCEPT !.steps = steps], items)
                 h == IF done THEN [hist EXCEPT !.setupBy = steps] ELSE hist
             IN  /\ env' = [env EXCEPT !.service = r.service]
                 /\ wd' = [wd EXCEPT !.setupCompleted = @ \/ done]
                 /\ IF r.ok
                    THEN /\ SetLog(Logged(items))
                         /\ connection' = IF t.ctx = "discover"
                                          THEN updateConnectionStatus(connection, "connected")
                                          ELSE connection
                         /\ End(i, t, "returned", h)
                    ELSE /\ connection' = connection
                         /\ SetupThrew(i, t0, r.items)
    /\ UNCHANGED <<baseStationConfig, baseStationStatus, systemInfo, xmlVars>>

---------------------------------------------------------------------------
(* getEdgeCardConfig *)

\* what the card's uptime, free and model commands print
cardUptime == Text(<<"up 3 days">>)
cardMemory == Text(<<"37%">>)
cardModel  == Text(<<"RAK7391">>)

\* a unique identifier other than the pinned one
ForeignUniqueId == String(<<"70-B3-D5-00-00-00-00-01">>)

\* The document mioty_bs_config.xml holds on the card: some elements, among
\* them a unique identifier of its own. (Without a document, and with one that
\* cannot be parsed, getMiotyXMLConfig rejects.)
MainDocs ==
    { Document("object", ConfigObject([NoFields EXCEPT
          !.uniqueBaseStationId = <<ForeignUniqueId>>,
          !.baseStationName = <<String(<<"bs-lab">>)>>,
          !.serviceCenterPort = <<String(<<"1", "8", "8", "3">>)>>,
          !.profile = <<String(<<"US1">>)>>,
          !.tlsAuthRequired = <<String(<<"true">>)>>])) }

\* the ways getMiotyXMLConfig rejects
XmlFailures == {"scp-exit", "scp-error", "read", "parse", "timeout"}

\* getMiotyXMLConfig: what it logs before it resolves ("ok") or rejects
getMiotyXMLConfig(outcome) ==
    LET retrieved == ExtendedLog("DEBUG", <<"XML file retrieved successfully">>, "xml-config", TRUE)
    IN  CASE outcome = "ok" ->
               retrieved \o ExtendedLog("DEBUG", <<"XML parsed successfully">>, "xml-config", TRUE)
          [] outcome = "scp-exit" ->
               ExtendedLog("ERROR", <<"SCP transfer failed">>, "xml-config", TRUE)
          [] outcome = "scp-error" ->
               ExtendedLog("ERROR", <<"SCP process error">>, "xml-config", TRUE)
          [] outcome = "read" ->
               ExtendedLog("ERROR", <<"Failed to read XML file">>, "xml-config", TRUE)
          [] outcome = "parse" ->
               retrieved \o ExtendedLog("ERROR", <<"XML parsing failed">>, "xml-config", TRUE)
          [] outcome = "timeout" -> <<>>

\* /tmp/mioty_bs_config.xml when getMiotyXMLConfig has settled: "absent",
\* "complete" (the file as scp wrote it) or "partial" (what scp had written
\* when it stopped). The file is unlinked on the path that resolves only; a
\* failed or killed scp may or may not have written some of it; readFileSync
\* throws on a file that is not there or cannot be read.
tmpFileAfter(outcome) ==
    CASE outcome = "ok"        -> {"absent"}
      [] outcome = "scp-exit"  -> {"absent", "partial"}
      [] outcome = "scp-error" -> {"absent"}
      [] outcome = "read"      -> {"absent", "complete"}
      [] outcome = "parse"     -> {"complete"}
      [] outcome = "timeout"   -> {"absent", "partial"}

\* the inner try of getEdgeCardConfig, from the completion of scp on: the
\* parameters of the document, or of {} when getMiotyXMLConfig rejected
miotyParams(outcome, doc) ==
    IF outcome = "ok"
    THEN [params |-> extractMiotyParams(doc).value,
          items  |-> getMiotyXMLConfig(outcome) \o extractLogHead
                     \o <<LogItem("INFO", <<"XML config retrieved successfully">>, "config")>>
                     \o extractLogTail
                     \o <<LogItem("DEBUG", <<"config", " Details">>, "config")>>]
    ELSE [params |-> extractMiotyParams(Document("object", ConfigUndefined)).value,
          items  |-> getMiotyXMLConfig(outcome)
                     \o ExtendedLog("WARN", <<"XML config failed, using defaults">>, "config", TRUE)
                     \o extractLogHead \o extractLogTail]

\* A plausible slip: the identifier of the document is passed on.
realConfig_fromXml(c) ==
    [baseStationName     |-> c.baseStationName,
     baseStationVendor   |-> c.baseStationVendor,
     baseStationModel    |-> c.baseStationModel,
     uniqueBaseStationId |-> c.uniqueBaseStationId,
     serviceCenterAddr   |-> c.serviceCenterAddr,
     serviceCenterPort   |-> parseIntOr8080(c.serviceCenterPort),
     profile             |-> c.profile,
     tlsAuthRequired     |-> Bool(c.tlsAuthRequired),
     tlsAllowInsecure    |-> Bool(c.tlsAllowInsecure)]

\* the realConfig object of watchdog and of GET /api/config
realConfig(c) ==
    [baseStationName     |-> c.baseStationName,
     baseStationVendor   |-> c.baseStationVendor,
     baseStationModel    |-> c.baseStationModel,
     uniqueBaseStationId |-> PinnedUniqueId,
     serviceCenterAddr   |-> c.serviceCenterAddr,
     serviceCenterPort   |-> parseIntOr8080(c.serviceCenterPort),
     profile             |-> c.profile,
     tlsAuthRequired     |-> Bool(c.tlsAuthRequired),
     tlsAllowInsecure    |-> Bool(c.tlsAllowInsecure)]

\* { ...existingConfig, ...realConfig }
mergedConfig(existing, rc) ==
    [k \in DOMAIN existing \cup DOMAIN rc |-> IF k \in DOMAIN rc THEN rc[k] ELSE existing[k]]

CfgKinds == {"watchdog", "getConfig"}
InCfg(i, pcs) == tasks[i] # NoTask /\ tasks[i].kind \in CfgKinds /\ tasks[i].pc \in pcs

NextCmd(pc) == CASE pc = "hostname" -> "uptime" [] pc = "uptime" -> "free"
                 [] pc = "free" -> "model" [] pc = "model" -> "scp"

\* getEdgeCardConfig rejected: the caller's catch block logs, and the call ends
ConfigFailed(i, t) ==
    LET items == IF t.kind = "watchdog"
                 THEN logStep("Watchdog Monitoring", "ERROR", TRUE)
                 ELSE <<LogItem("ERROR", <<"Failed to get real config from EdgeCard">>, "config")>>
    IN  /\ SetLog(Logged(items))
        /\ End(i, Wrote([t EXCEPT !.caught = @ + 1], items), "returned", hist)
        /\ UNCHANGED storageVars

\* hostname, uptime, free, model: one ssh command each
SystemInfoCommand(i) ==
    /\ InCfg(i, {"hostname", "uptime", "free", "model"})
    /\ \E ok \in BOOLEAN :
          /\ MayFail(<<ok>>)
          /\ SpendFaults(<<ok>>)
          /\ LET t == Failing(tasks[i], <<ok>>)
                 items == IF t.pc = "model"
                          THEN ExtendedLog("DEBUG", <<"Attempting to get mioty XML config">>,
                                           "config", TRUE)
                          ELSE <<>>
             IN  IF ok
                 THEN /\ SetLog(Logged(items))
                      /\ Continue(i, [t EXCEPT !.pc = NextCmd(@)], hist)
                      /\ UNCHANGED storageVars
                 ELSE ConfigFailed(i, t)
          \* getMiotyXMLConfig begins by unlinking the temporary file
          /\ env' = IF ok /\ tasks[i].pc = "model" THEN [env EXCEPT !.tmpFile = "absent"] ELSE env
    /\ UNCHANGED <<wd, xmlVars>>

\* scp and the parsing of the file: a failure here is not one of the call
FetchXml(i) ==
    /\ InCfg(i, {"scp"})
    /\ \E outcome \in {"ok"} \cup XmlFailures :
          /\ MayFail(<<outcome = "ok">>)
          /\ SpendFaults(<<outcome = "ok">>)
          /\ LET x == miotyParams(outcome, env.doc)
                 t == Failing(tasks[i], <<outcome = "ok">>)
             IN  /\ SetLog(Logged(x.items))
                 /\ Continue(i, Wrote([t EXCEPT !.pc = "is-active", !.data.config = x.params,
                                                !.xmlOk = (outcome = "ok")], x.items), hist)
          /\ \E file \in tmpFileAfter(outcome) : env' = [env EXCEPT !.tmpFile = file]
    /\ UNCHANGED <<storageVars, wd, xmlVars>>

\* the status query of getEdgeCardConfig
QueryActive(i) ==
    /\ InCfg(i, {"is-active"})
    /\ \E ok \in BOOLEAN :
          /\ MayFail(<<ok>>)
          /\ SpendFaults(<<ok>>)
          /\ LET r == executeSSHCommand(ok, cmdConfigStatus(env))
                 t == Failing(tasks[i], <<ok>>)
             IN  IF r.ok
                 THEN /\ Continue(i, [t EXCEPT !.pc = "is-enabled",
                                        !.data.miotyStatus = IF r.out = <<"active">>
                                                             THEN "running" ELSE "stopped"], hist)
                      /\ UNCHANGED <<storageVars, logVars>>
                 ELSE ConfigFailed(i, t)
    /\ UNCHANGED <<wd, env, xmlVars>>

\* the auto-start query of getEdgeCardConfig, and what the caller does with
\* the data: watchdog stores configuration and system info and goes on to the
\* service; GET /api/config stores the merged configuration and responds
QueryEnabled(i) ==
    /\ InCfg(i, {"is-enabled"})
    /\ \E ok \in BOOLEAN :
          /\ MayFail(<<ok>>)
          /\ SpendFaults(<<ok>>)
          /\ LET r == executeSSHCommand(ok, cmdIsEnabled(env))
                 t == [Failing(tasks[i], <<ok>>) EXCEPT !.data.autoStart = (r.out = <<"enabled">>)]
                 rc == realConfig(t.data.config)
             IN  IF ~r.ok THEN ConfigFailed(i, t)
                 ELSE IF t.kind = "watchdog"
                 THEN /\ SetLog(Logged(ExtendedLog("DEBUG", <<"EdgeCard data retrieved">>,
                                                   "watchdog", TRUE)))
                      /\ baseStationConfig' = updateBaseStationConfig(baseStationConfig, rc, "watchdog")
                      /\ systemInfo' = updateSystemInfo(systemInfo, cardModel, Date(now))
                      /\ Continue(i, [t EXCEPT !.pc = "getMiotyStatus"], hist)
                      /\ UNCHANGED <<connection, baseStationStatus>>
                 ELSE /\ SetLog(Logged(<<LogItem("INFO",
                                   <<"Configuration updated from EdgeCard">>, "config")>>))
                      /\ baseStationConfig' = updateBaseStationConfig(baseStationConfig,
                                                 mergedConfig(baseStationConfig, rc), "GET /api/config")
                      /\ End(i, t, "returned", hist)
                      /\ UNCHANGED <<connection, baseStationStatus, systemInfo>>
    /\ UNCHANGED <<wd, env, xmlVars>>

---------------------------------------------------------------------------
(* MiotyWatchdog.watchdog: the reconciliation cycle *)

StatusFields == {"autoStart", "lastStarted", "lastStopped", "uptime", "memoryUsage"}

\* Bookkeeping of a call of updateBaseStationStatus by the call in place i:
\* the object it was given, for every field the value of the last call that
\* gave one, and whether another call was in flight.
recordWrite(h, w, i) ==
    [h EXCEPT !.statusWrite = w,
              !.fieldLast = [f \in StatusFields |-> IF Nullish(w[f]) THEN @[f] ELSE w[f]],
              !.writes = @ + 1,
              !.concurrent = @ \/ \E j \in Slots \ {i} : tasks[j] # NoTask]

\* the levels of the entries that watchdog itself logs
WatchdogLevels(items) ==
    LET own == SelectSeq(items, LAMBDA e : e.source = "watchdog")
    IN  [n \in 1..Len(own) |-> own[n].level]

\* A plausible slip: no cycle before provisioning has completed.
watchdogReturnsAtOnce_beforeSetup(w) ==
    w.edgeCardIp = "null" \/ w.miotyCommands = "null" \/ ~w.setupCompleted

\* if (!this.edgeCardIp || !this.miotyCommands) return;
watchdogReturnsAtOnce(w) == w.edgeCardIp = "null" \/ w.miotyCommands = "null"

\* the interval (30 s) calls watchdog
Watchdog(i) ==
    /\ Free(i)
    /\ wd.watchdogInterval
    /\ ~wd.startupTimeout
    /\ budget.watchdog > 0
    /\ SpendTick("watchdog")
    /\ IF watchdogReturnsAtOnce(wd)
       THEN /\ End(i, NewTask("watchdog", "start"), "returned", hist)
            /\ UNCHANGED logVars
       ELSE /\ SetLog(Logged(ExtendedLog("DEBUG", <<"Watchdog cycle started">>, "watchdog", TRUE)))
            /\ Continue(i, [NewTask("watchdog", "hostname") EXCEPT !.ip = wd.edgeCardIp], hist)
    /\ UNCHANGED <<storageVars, wd, env, xmlVars>>

\* the catch block of watchdog
WatchdogCaught(i, t, items) ==
    LET all == items \o logStep("Watchdog Monitoring", "ERROR", TRUE)
    IN  /\ SetLog(Logged(all))
        /\ End(i, Wrote([t EXCEPT !.caught = @ + 1], all), "returned", hist)
        /\ UNCHANGED storageVars

\* getMiotyStatus comes back: the service is restarted, or its state stored
WatchdogStatus(i) ==
    /\ At(i, "watchdog", "getMiotyStatus")
    /\ \E ok \in BOOLEAN :
          /\ MayFail(<<ok>>)
          /\ SpendFaults(<<ok>>)
          /\ LET g == getMiotyStatus(ok, env)
                 t == [Failing(tasks[i], <<ok>>) EXCEPT
                          !.query = [asked |-> TRUE, transport |-> ok, service |-> env.service,
                                     threw |-> g.threw, value |-> g.value]]
                 check == <<LogItem("INFO", <<"Service Status Check: mioty_bs = ">> \o g.value,
                                    "watchdog")>>
                 down == check \o <<LogItem("WARN",
                            <<"mioty_bs service is down - attempting auto-restart">>, "watchdog")>>
                 up == check
                       \o <<LogItem("DEBUG", <<"Service running normally: ">> \o g.value, "watchdog"),
                            LogItem("DEBUG", <<"Watchdog cycle completed">>, "watchdog")>>
                 w == StatusWrite(IF g.value = <<"active">> THEN "running" ELSE "stopped",
                                  Bool(t.data.autoStart), Missing, Missing, cardUptime, cardMemory)
             IN  IF g.threw THEN WatchdogCaught(i, t, <<>>)
                 ELSE IF g.value = <<"inactive">>
                 THEN /\ SetLog(Logged(down))
                      /\ Continue(i, [t EXCEPT !.pc = "startPf", !.levels = WatchdogLevels(down)], hist)
                      /\ UNCHANGED storageVars
                 ELSE /\ SetLog(Logged(up))
                      /\ baseStationStatus' = updateBaseStationStatus(baseStationStatus, w, "watchdog")
                      /\ End(i, [t EXCEPT !.levels = WatchdogLevels(up), !.stored = w.status],
                             "returned", recordWrite(hist, w, i))
                      /\ UNCHANGED <<connection, baseStationConfig, systemInfo>>
    /\ UNCHANGED <<wd, env, xmlVars>>

\* startPf comes back in watchdog
WatchdogStartPf(i) ==
    /\ At(i, "watchdog", "startPf")
    /\ \E checkOk, sshOk \in BOOLEAN :
          /\ MayFail(<<checkOk, sshOk>>)
          /\ SpendFaults(<<checkOk, sshOk>>)
          /\ LET r == startPf(checkOk, sshOk, env)
                 t == [Failing(tasks[i], <<checkOk, sshOk>>) EXCEPT !.startIssued = TRUE]
                 items == r.items
                          \o <<LogItem("INFO", <<"Auto-restarted mioty_bs service">>, "watchdog"),
                               LogItem("DEBUG", <<"Watchdog cycle completed">>, "watchdog")>>
                 w == StatusWrite("running", Bool(t.data.autoStart), Date(now), Missing,
                                  cardUptime, cardMemory)
             IN  /\ env' = [env EXCEPT !.service = r.service]
                 /\ IF r.ok
                    THEN /\ SetLog(Logged(items))
                         /\ baseStationStatus' = updateBaseStationStatus(baseStationStatus, w, "watchdog")
                         /\ End(i, [t EXCEPT !.levels = @ \o WatchdogLevels(items), !.stored = w.status],
                                "returned", recordWrite(hist, w, i))
                         /\ UNCHANGED <<connection, baseStationConfig, systemInfo>>
                    ELSE WatchdogCaught(i, t, r.items)
    /\ UNCHANGED <<wd, xmlVars>>

---------------------------------------------------------------------------
(* Route handlers *)

\* GET /api/config arrives
GetConfig(i) ==
    /\ Free(i)
    /\ budget.http > 0
    /\ SpendTick("http")
    /\ IF connection.status = "connected"
       THEN Continue(i, [NewTask("getConfig", "hostname") EXCEPT !.ip = connection.edgeCardIp], hist)
       ELSE End(i, NewTask("getConfig", "start"), "returned", hist)
    /\ UNCHANGED <<storageVars, logVars, wd, env, xmlVars>>

\* a configuration a user may send: any text passes the schema
UserConfigs ==
    { [uniqueBaseStationId |-> ForeignUniqueId,
       baseStationName     |-> String(<<"bench">>),
       baseStationVendor   |-> String(<<"Miromico">>),
       baseStationModel    |-> String(<<"EDGE-GW-MY-868">>),
       serviceCenterAddr   |-> String(<<"localhost">>),
       serviceCenterPort   |-> 8080,
       profile             |-> String(<<"EU1">>),
       tlsAuthRequired     |-> Bool(FALSE)] }

\* PUT /api/config: the handler awaits no child process, so it runs in one
\* piece; it is taken between the calls that do
PutConfig ==
    /\ Idle
    /\ budget.http > 0
    /\ SpendTick("http")
    /\ \E c \in UserConfigs :
          baseStationConfig' = updateBaseStationConfig(baseStationConfig, c, "PUT /api/config")
    /\ SetLog(Logged(<<LogItem("INFO", <<"Base station configuration updated">>, "config")>>))
    /\ UNCHANGED <<connection, baseStationStatus, systemInfo, wd, tasks, env, hist, xmlVars>>

\* POST /api/connection/start and .../stop: the stored status is set as asked;
\* no command is run
PostConnection ==
    /\ Idle
    /\ budget.http > 0
    /\ SpendTick("http")
    /\ \E cmd \in {"start", "stop"} :
          /\ connection' = updateConnectionStatus(connection,
                               IF cmd = "start" THEN "connected" ELSE "disconnected")
          /\ SetLog(Logged(<<IF cmd = "start"
                             THEN LogItem("CONN", <<"Connection established to EdgeCard">>, "connection")
                             ELSE LogItem("INFO", <<"Connection to EdgeCard stopped">>, "connection")>>))
    /\ UNCHANGED <<baseStationConfig, baseStationStatus, systemInfo, wd, tasks, env, hist, xmlVars>>

\* the object POST /api/base-station/start and .../stop hand to the store
serviceWrite(cmd, t) ==
    IF cmd = "start"
    THEN StatusWrite("running", Missing, Date(t), Missing, Missing, Missing)
    ELSE StatusWrite("stopped", Missing, Missing, Date(t), Missing, Missing)

\* the handler from the status write on
ServiceRespond(i, t, pre) ==
    LET w == serviceWrite(t.pc, now)
        items == pre \o <<LogItem("INFO",
                            IF t.pc = "start" THEN <<"Base station started successfully">>
                            ELSE <<"Base station stopped">>, "base-station")>>
    IN  /\ baseStationStatus' = updateBaseStationStatus(baseStationStatus, w, "POST " \o t.pc)
        /\ SetLog(Logged(items))
        /\ End(i, Wrote(t, items), "returned", recordWrite(hist, w, i))
        /\ UNCHANGED <<connection, baseStationConfig, systemInfo>>

\* POST /api/base-station/start or /stop arrives
PostBaseStation(i) ==
    /\ Free(i)
    /\ budget.http > 0
    /\ SpendTick("http")
    /\ \E cmd \in {"start", "stop"} :
          IF connection.status = "connected"
          THEN /\ Continue(i, [NewTask("post", cmd) EXCEPT !.ip = connection.edgeCardIp], hist)
               /\ UNCHANGED <<storageVars, logVars>>
          ELSE ServiceRespond(i, NewTask("post", cmd), <<>>)
    /\ UNCHANGED <<wd, env, xmlVars>>

\* systemctl start or stop comes back in the handler
PostBaseStationSsh(i) ==
    /\ tasks[i] # NoTask /\ tasks[i].kind = "post"
    /\ \E ok \in BOOLEAN :
          /\ MayFail(<<ok>>)
          /\ SpendFaults(<<ok>>)
          /\ LET t == Failing(tasks[i], <<ok>>)
                 sent == IF ok
                         THEN <<LogItem("INFO", <<"Command sent to EdgeCard: ", t.pc>>, "base-station")>>
                         ELSE <<LogItem("ERROR", <<"Failed to send command: ", t.pc>>, "base-station")>>
             IN  /\ env' = IF ok THEN [env EXCEPT !.service = IF t.pc = "start" THEN "active"
                                                              ELSE "inactive"]
                           ELSE env
                 /\ ServiceRespond(i, t, sent)
    /\ UNCHANGED <<wd, xmlVars>>

\* the service on the card stops by itself, between two calls
ServiceStops ==
    /\ Idle
    /\ budget.outages > 0
    /\ SpendTick("outages")
    /\ env.service = "active"
    /\ \E s \in ServiceStates \ {"active"} : env' = [env EXCEPT !.service = s]
    /\ UNCHANGED <<storageVars, logVars, wd, tasks, hist, xmlVars>>

---------------------------------------------------------------------------
(* The server, one call at a time *)

\* MemStorage after its constructor
InitStorage ==
    /\ connection = defaultConnection
    /\ baseStationConfig = defaultConfig
    /\ baseStationStatus = defaultStatus
    /\ systemInfo = defaultSystemInfo
    /\ activityLogs = defaultLogs
    /\ logSeq = Len(defaultLogs)
    /\ now = InitNow

\* new MiotyWatchdog(): the fields' initializers, no timer armed
InitWatchdog ==
    wd = [started |-> FALSE, startupTimeout |-> FALSE, connectionInterval |-> FALSE,
          watchdogInterval |-> FALSE, edgeCardIp |-> "null", miotyCommands |-> "null",
          setupCompleted |-> FALSE]

InitHist ==
    hist = [last |-> NoTask, setupBy |-> <<>>, setupThrew |-> FALSE, writes |-> 0,
            concurrent |-> FALSE, dispatched |-> "none",
            statusWrite |-> [f \in StatusFields \cup {"status"} |-> defaultStatus[f]],
            fieldLast |-> [f \in StatusFields |-> defaultStatus[f]]]

NoBudget == [auto |-> 0, watchdog |-> 0, http |-> 0, faults |-> 0, probes |-> 0,
             outages |-> 0, clock |-> 0, adds |-> 0, clears |-> 0, dispatches |-> 0]

\* extractMiotyParams has not been applied
Number(n) == [t |-> "number", v |-> n]

\* extractMiotyParams not yet applied; the port that realConfig makes of its
\* result not yet computed
NotExtracted == [done |-> FALSE, threw |-> FALSE, value |-> Defaults,
                 reconciled |-> FALSE, port |-> Number(0)]
InitXml == xmlData = Document("undefined", ConfigUndefined) /\ extracted = NotExtracted

\* the card and the host when the server starts
Envs == [service : {"active"}, enabled : {FALSE}, profiles : {0},
         ifaceMethod : {1}, doc : MainDocs, tmpFile : {"absent"},
         script : {"none"}, firewall : {NoRules}]

Init ==
    /\ InitStorage
    /\ InitWatchdog
    /\ InitHist
    /\ InitXml
    /\ tasks = <<NoTask>>
    /\ env \in Envs
    /\ budget = [NoBudget EXCEPT !.auto = MaxAutoTicks, !.watchdog = MaxWatchdogTicks,
                                 !.http = MaxRequests, !.faults = MaxFaults,
                                 !.probes = MaxProbeFailures, !.outages = MaxOutages]

Next ==
    \/ Start
    \/ \E i \in Slots : AutoSetupAndConnect(i)
    \/ \E i \in Slots : Probe(i)
    \/ \E i \in Slots : SetupConnectionDetect(i)
    \/ \E i \in Slots : SetupConnectionApply(i)
    \/ \E i \in Slots : StartConnection(i)
    \/ \E i \in Slots : EnableConnection(i)
    \/ \E i \in Slots : EnablePf(i)
    \/ \E i \in Slots : SetupStartPf(i)
    \/ \E i \in Slots : Watchdog(i)
    \/ \E i \in Slots : SystemInfoCommand(i)
    \/ \E i \in Slots : FetchXml(i)
    \/ \E i \in Slots : QueryActive(i)
    \/ \E i \in Slots : QueryEnabled(i)
    \/ \E i \in Slots : WatchdogStatus(i)
    \/ \E i \in Slots : WatchdogStartPf(i)
    \/ \E i \in Slots : GetConfig(i)
    \/ \E i \in Slots : PostBaseStation(i)
    \/ \E i \in Slots : PostBaseStationSsh(i)
    \/ PutConfig
    \/ PostConnection
    \/ ServiceStops

Spec == Init /\ [][Next]_vars

---------------------------------------------------------------------------
(* The activity log alone: its three methods called in any order, by whom
   ever, while the clock goes on. new Date() never goes back. *)

\* what the callers hand in: the levels matter to no method
LogItems == { LogItem("INFO", <<"entry">>, "system") }

\* storage.addActivityLog
LogAdd ==
    /\ budget.adds > 0
    /\ budget' = [budget EXCEPT !.adds = @ - 1]
    /\ \E item \in LogItems :
          LET L == addActivityLog(CurLog, item, now)
          IN  activityLogs' = L.logs /\ logSeq' = L.seq
    /\ UNCHANGED <<now, storageVars, wd, tasks, env, hist, xmlVars>>

\* DELETE /api/logs: clearActivityLogs, then an entry saying so
LogClear ==
    /\ budget.clears > 0
    /\ budget' = [budget EXCEPT !.clears = @ - 1, !.adds = MaxAdds]
    /\ LET L == addActivityLog(clearActivityLogs(CurLog),
                               LogItem("INFO", <<"Activity log cleared">>, "system"), now)
       IN  activityLogs' = L.logs /\ logSeq' = L.seq
    /\ UNCHANGED <<now, storageVars, wd, tasks, env, hist, xmlVars>>

\* GET /api/logs: getActivityLogs sorts the stored array in place; what it
\* returns goes to the client
LogGet ==
    /\ \E limit \in {DefaultLimit, MaxLogs} :
          activityLogs' = getActivityLogs(activityLogs, limit, now).stored
    /\ UNCHANGED <<now, logSeq, storageVars, wd, tasks, env, hist, budget, xmlVars>>

\* time passes
ClockTick ==
    /\ budget.clock > 0
    /\ budget' = [budget EXCEPT !.clock = @ - 1]
    /\ now' = now + 1
    /\ UNCHANGED <<activityLogs, logSeq, storageVars, wd, tasks, env, hist, xmlVars>>

InitLog ==
    /\ InitStorage
    /\ InitWatchdog
    /\ InitHist
    /\ InitXml
    /\ tasks = <<NoTask>>
    /\ env \in Envs
    /\ budget = [NoBudget EXCEPT !.adds = MaxAdds, !.clears = MaxClears, !.clock = MaxClock]

NextLog == LogAdd \/ LogClear \/ LogGet \/ ClockTick

SpecLog == InitLog /\ [][NextLog]_vars

---------------------------------------------------------------------------
(* extractMiotyParams alone, applied to a drawn input *)

\* the text of an element that has one
FieldText(k) == IF k = "profile" THEN <<"US1">> ELSE <<"text of ", k>>

\* texts of the port element: digits, digits followed by letters, zero
PortTexts == { <<"1", "8", "8", "3">>, <<"1", "2", "a", "b", "c">>, <<"0">> }

\* what a child element may be: absent, with text, or empty; for the port
\* also the texts above, for the two flags also texts near "true"
ElementsOf(k) ==
    IF k = "serviceCenterPort"
    THEN { <<>>, <<String(FieldText(k))>>, <<String(<<>>)>> } \cup { <<String(p)>> : p \in PortTexts }
    ELSE IF k \in StringFields
    THEN { <<>>, <<String(FieldText(k))>>, <<String(<<>>)>> }
    ELSE { <<>>, <<String(<<"true">>)>>, <<String(<<"TRUE">>)>>, <<String(<<"false">>)>>,
           <<String(<<>>)>> }

\* the inputs: null, undefined, an object without BaseStationConfig, one
\* whose BaseStationConfig is an empty or a text-only element, and one with
\* any choice of child elements
ExtractInputs ==
    { Document("null", ConfigUndefined), Document("undefined", ConfigUndefined),
      Document("object", ConfigUndefined), Document("object", ConfigString(<<>>)),
      Document("object", ConfigString(<<"text">>)) }
    \cup { Document("object", ConfigObject(f)) :
             f \in [uniqueBaseStationId : ElementsOf("uniqueBaseStationId"),
                    baseStationName     : ElementsOf("baseStationName"),
                    baseStationVendor   : ElementsOf("baseStationVendor"),
                    baseStationModel    : ElementsOf("baseStationModel"),
                    serviceCenterAddr   : ElementsOf("serviceCenterAddr"),
                    serviceCenterPort   : ElementsOf("serviceCenterPort"),
                    profile             : ElementsOf("profile"),
                    tlsAuthRequired     : ElementsOf("tlsAuthRequired"),
                    tlsAllowInsecure    : ElementsOf("tlsAllowInsecure")] }

Extract ==
    /\ ~extracted.done
    /\ LET r == extractMiotyParams(xmlData)
       IN  extracted' = [extracted EXCEPT !.done = TRUE, !.threw = r.threw, !.value = r.value]
    /\ UNCHANGED <<xmlData, storageVars, logVars, wd, tasks, env, hist, budget>>

InitExtract ==
    /\ InitStorage
    /\ InitWatchdog
    /\ InitHist
    /\ tasks = <<NoTask>>
    /\ env \in Envs
    /\ budget = NoBudget
    /\ xmlData \in ExtractInputs
    /\ extracted = NotExtracted

\* the port of the realConfig object that watchdog and GET /api/config build
\* from the extracted record
Reconcile ==
    /\ extracted.done
    /\ ~extracted.reconciled
    /\ extracted' = [extracted EXCEPT !.reconciled = TRUE,
                                       !.port = Number(realConfig(extracted.value).serviceCenterPort)]
    /\ UNCHANGED <<xmlData, storageVars, logVars, wd, tasks, env, hist, budget>>

NextExtract ==
    \/ Extract
    \/ Reconcile

SpecExtract == InitExtract /\ [][NextExtract]_vars

---------------------------------------------------------------------------
(* Calls that overlap: the server after a first tick that found the card at
   the first address and provisioned it, then reconciliation cycles and
   start/stop requests, two of them in flight at a time *)

\* the card and the host after provisioning
provisionedEnv(e) == [e EXCEPT !.profiles = 1, !.enabled = TRUE, !.service = "active",
                                !.script = internalIf(e.ifaceMethod)]

\* what Start and the first tick logged
provisionedItems(e) ==
    ExtendedLog("INFO", <<"Complete mioty-cli Automation System started">>, "startup", FALSE)
    \o <<LogItem("CONN", <<"EdgeCard discovered at ", possibleIPs[1]>>, "watchdog")>>
    \o logStep("Complete mioty-cli Automation Setup", "START", TRUE)
    \o setupConnectionDetect(TRUE, e).items
    \o setupConnectionApply(FALSE, 0, e).items
    \o startConnection(TRUE, TRUE, [e EXCEPT !.profiles = 1]).items
    \o enableConnection(TRUE, TRUE, [e EXCEPT !.profiles = 1]).items
    \o enablePf(TRUE, TRUE, [e EXCEPT !.profiles = 1]).items
    \o startPf(TRUE, TRUE, [e EXCEPT !.profiles = 1]).items
    \o logStep("Complete mioty-cli Automation Setup", "SUCCESS", TRUE)

\* the server then
Provisioned(e) ==
    /\ connection = updateConnectionStatus(defaultConnection, "connected")
    /\ baseStationConfig = defaultConfig
    /\ baseStationStatus = defaultStatus
    /\ systemInfo = defaultSystemInfo
    /\ LET L == addAll(LogState(defaultLogs, Len(defaultLogs)), provisionedItems(e), InitNow)
       IN  activityLogs = L.logs /\ logSeq = L.seq
    /\ now = InitNow
    /\ wd = [started |-> TRUE, startupTimeout |-> FALSE, connectionInterval |-> TRUE,
             watchdogInterval |-> TRUE, edgeCardIp |-> possibleIPs[1],
             miotyCommands |-> possibleIPs[1], setupCompleted |-> TRUE]
    /\ env = provisionedEnv(e)
    /\ InitXml

InitOverlap ==
    /\ \E e \in Envs : Provisioned(e)
    /\ hist = [last |-> NoTask, setupBy |-> SetupOrder, setupThrew |-> FALSE, writes |-> 0,
               concurrent |-> FALSE, dispatched |-> "none",
               statusWrite |-> [f \in StatusFields \cup {"status"} |-> defaultStatus[f]],
               fieldLast |-> [f \in StatusFields |-> defaultStatus[f]]]
    /\ tasks = <<NoTask, NoTask>>
    /\ budget = [NoBudget EXCEPT !.watchdog = MaxWatchdogTicks + 1, !.http = MaxRequests,
                                 !.faults = MaxFaults]

NextOverlap ==
    \/ \E i \in Slots : Watchdog(i)
    \/ \E i \in Slots : SystemInfoCommand(i)
    \/ \E i \in Slots : FetchXml(i)
    \/ \E i \in Slots : QueryActive(i)
    \/ \E i \in Slots : QueryEnabled(i)
    \/ \E i \in Slots : WatchdogStatus(i)
    \/ \E i \in Slots : WatchdogStartPf(i)
    \/ \E i \in Slots : PostBaseStation(i)
    \/ \E i \in Slots : PostBaseStationSsh(i)

SpecOverlap == InitOverlap /\ [][NextOverlap]_vars

---------------------------------------------------------------------------
(* Host provisioning: the discovery and provisioning ticks alone, on a host
   that may hold the profile and the rules of an earlier life of the server,
   while the network manager runs the dispatcher script *)

\* interfaces the network manager reports events for
Interfaces == {"enx1", "eth0", "wlan0"}

\* the network manager runs the scripts of dispatcher.d for an interface; the
\* server takes no part in it
Dispatch ==
    /\ Idle
    /\ env.script # "none"
    /\ budget.dispatches > 0
    /\ SpendTick("dispatches")
    /\ \E interface \in Interfaces, oks \in [1..3 -> BOOLEAN] :
          /\ env' = [env EXCEPT !.firewall = dispatcherScript(env.script, interface, @, oks)]
          /\ hist' = [hist EXCEPT !.dispatched = interface]
    /\ UNCHANGED <<storageVars, logVars, wd, tasks, xmlVars>>

\* the host when the server starts: with or without the profile and the rules
EnvsHost == [service : {"active"}, enabled : {FALSE}, profiles : {0, 1},
             ifaceMethod : {0, 1}, doc : MainDocs, tmpFile : {"absent"},
             script : {"none"}, firewall : {NoRules, AllRules}]

InitProvision ==
    /\ InitStorage
    /\ InitWatchdog
    /\ InitHist
    /\ InitXml
    /\ tasks = <<NoTask>>
    /\ env \in EnvsHost
    /\ budget = [NoBudget EXCEPT !.auto = MaxAutoTicks, !.faults = MaxFaults,
                                 !.probes = MaxProbeFailures, !.dispatches = MaxDispatches]

NextProvision ==
    \/ Start
    \/ \E i \in Slots : AutoSetupAndConnect(i)
    \/ \E i \in Slots : Probe(i)
    \/ \E i \in Slots : SetupConnectionDetect(i)
    \/ \E i \in Slots : SetupConnectionApply(i)
    \/ \E i \in Slots : StartConnection(i)
    \/ \E i \in Slots : EnableConnection(i)
    \/ \E i \in Slots : EnablePf(i)
    \/ \E i \in Slots : SetupStartPf(i)
    \/ Dispatch

SpecProvision == InitProvision /\ [][NextProvision]_vars

---------------------------------------------------------------------------
(* MiotyWatchdog with stop(): the two tick handlers and the calls they make,
   and a caller of stop() at any moment after start() *)

\* stop(): clearInterval on the two interval handles. The handle of the
\* start-up timeout is not kept, so it stays armed; calls in flight go on.
Stop ==
    /\ wd.started
    /\ wd' = [wd EXCEPT !.connectionInterval = FALSE, !.watchdogInterval = FALSE]
    /\ UNCHANGED <<storageVars, logVars, tasks, env, hist, budget, xmlVars>>

InitStop ==
    /\ InitStorage
    /\ InitWatchdog
    /\ InitHist
    /\ InitXml
    /\ tasks = <<NoTask>>
    /\ env \in Envs
    /\ budget = [NoBudget EXCEPT !.auto = MaxAutoTicks, !.watchdog = MaxWatchdogTicks,
                                 !.faults = MaxFaults, !.probes = MaxProbeFailures]

NextStop ==
    \/ Start
    \/ Stop
    \/ \E i \in Slots : AutoSetupAndConnect(i)
    \/ \E i \in Slots : Probe(i)
    \/ \E i \in Slots : SetupConnectionDetect(i)
    \/ \E i \in Slots : SetupConnectionApply(i)
    \/ \E i \in Slots : StartConnection(i)
    \/ \E i \in Slots : EnableConnection(i)
    \/ \E i \in Slots : EnablePf(i)
    \/ \E i \in Slots : SetupStartPf(i)
    \/ \E i \in Slots : Watchdog(i)
    \/ \E i \in Slots : SystemInfoCommand(i)
    \/ \E i \in Slots : FetchXml(i)
    \/ \E i \in Slots : QueryActive(i)
    \/ \E i \in Slots : QueryEnabled(i)
    \/ \E i \in Slots : WatchdogStatus(i)
    \/ \E i \in Slots : WatchdogStartPf(i)

SpecStop == InitStop /\ [][NextStop]_vars

---------------------------------------------------------------------------
(* The timers under fair scheduling: setInterval calls its handler again and
   again, and a child process that was spawned comes to an end (ssh by
   ConnectTimeout or the five-minute timer, a local command by its own
   timer), so a call in flight goes on to its next step *)

InitRetry ==
    /\ InitStorage
    /\ InitWatchdog
    /\ InitHist
    /\ InitXml
    /\ tasks = <<NoTask>>
    /\ env \in Envs
    /\ budget = [NoBudget EXCEPT !.auto = MaxAutoTicks, !.watchdog = MaxWatchdogTicks,
                                 !.http = MaxRequests, !.faults = MaxFaults,
                                 !.probes = MaxProbeFailures]

NextRetry ==
    \/ Start
    \/ \E i \in Slots : AutoSetupAndConnect(i)
    \/ \E i \in Slots : Probe(i)
    \/ \E i \in Slots : SetupConnectionDetect(i)
    \/ \E i \in Slots : SetupConnectionApply(i)
    \/ \E i \in Slots : StartConnection(i)
    \/ \E i \in Slots : EnableConnection(i)
    \/ \E i \in Slots : EnablePf(i)
    \/ \E i \in Slots : SetupStartPf(i)
    \/ \E i \in Slots : Watchdog(i)
    \/ \E i \in Slots : SystemInfoCommand(i)
    \/ \E i \in Slots : FetchXml(i)
    \/ \E i \in Slots : QueryActive(i)
    \/ \E i \in Slots : QueryEnabled(i)
    \/ \E i \in Slots : WatchdogStatus(i)
    \/ \E i \in Slots : WatchdogStartPf(i)
    \/ PostConnection

\* a timer fires, or a command that was issued comes back
TimersAndCommands ==
    \/ Start
    \/ \E i \in Slots : AutoSetupAndConnect(i)
    \/ \E i \in Slots : Watchdog(i)
    \/ \E i \in Slots : Probe(i)
    \/ \E i \in Slots : SetupConnectionDetect(i)
    \/ \E i \in Slots : SetupConnectionApply(i)
    \/ \E i \in Slots : StartConnection(i)
    \/ \E i \in Slots : EnableConnection(i)
    \/ \E i \in Slots : EnablePf(i)
    \/ \E i \in Slots : SetupStartPf(i)
    \/ \E i \in Slots : SystemInfoCommand(i)
    \/ \E i \in Slots : FetchXml(i)
    \/ \E i \in Slots : QueryActive(i)
    \/ \E i \in Slots : QueryEnabled(i)
    \/ \E i \in Slots : WatchdogStatus(i)
    \/ \E i \in Slots : WatchdogStartPf(i)

\* a timer can fire or a command can come back: a call is in flight, start()
\* has not yet been called, or a timer is armed and not used up
CanProgress ==
    \/ ~Idle
    \/ ~wd.started
    \/ budget.auto > 0 /\ (wd.startupTimeout \/ wd.connectionInterval)
    \/ budget.watchdog > 0 /\ wd.watchdogInterval /\ ~wd.startupTimeout

\* CanProgress is ENABLED TimersAndCommands (an invariant of SpecRetry)
CanProgressIsEnabled == CanProgress <=> ENABLED TimersAndCommands

\* a step that is not a request's
Progressed == budget'.http = budget.http

\* requests may stop coming; timers and child processes do not stand still:
\* weak fairness of TimersAndCommands, with ENABLED written out
FairRetry == []<>(~CanProgress) \/ []<><<Progressed>>_vars

SpecRetry == InitRetry /\ [][NextRetry]_vars /\ FairRetry

---------------------------------------------------------------------------
(* The two timers with calls that overlap: setInterval calls the handler at
   every tick and awaits nothing, so a tick finds earlier calls of either
   handler still in flight; two of them here *)

InitTicks ==
    /\ InitStorage
    /\ InitWatchdog
    /\ InitHist
    /\ InitXml
    /\ tasks = <<NoTask, NoTask>>
    /\ env \in Envs
    /\ budget = [NoBudget EXCEPT !.auto = MaxAutoTicks, !.watchdog = MaxWatchdogTicks]

\* no command fails and the service stays active here, so watchdog never
\* comes to its restart
NextTicks ==
    \/ Start
    \/ \E i \in Slots : AutoSetupAndConnect(i)
    \/ \E i \in Slots : Probe(i)
    \/ \E i \in Slots : SetupConnectionDetect(i)
    \/ \E i \in Slots : SetupConnectionApply(i)
    \/ \E i \in Slots : StartConnection(i)
    \/ \E i \in Slots : EnableConnection(i)
    \/ \E i \in Slots : EnablePf(i)
    \/ \E i \in Slots : SetupStartPf(i)
    \/ \E i \in Slots : Watchdog(i)
    \/ \E i \in Slots : SystemInfoCommand(i)
    \/ \E i \in Slots : FetchXml(i)
    \/ \E i \in Slots : QueryActive(i)
    \/ \E i \in Slots : QueryEnabled(i)
    \/ \E i \in Slots : WatchdogStatus(i)

SpecTicks == InitTicks /\ [][NextTicks]_vars

---------------------------------------------------------------------------
(* getMiotyXMLConfig alone: calls of the watchdog cycle and of the route
   handlers in flight at once, each from its unlinkSync on, with scp as a
   process of its own. All use the path /tmp/mioty_bs_config.xml; the
   transfers themselves succeed. *)

\* a call: where it is, whether the file scp opened is still the one at the
\* path, and, once it has settled, how (outcome) and whether what it read was
\* the file of its own transfer
NewXmlCall ==
    [kind |-> "xml", pc |-> "scp", linked |-> FALSE, outcome |-> "none", own |-> FALSE]

IsXml(i, pc) == tasks[i] # NoTask /\ tasks[i].kind = "xml" /\ tasks[i].pc = pc

\* unlinkSync: the path is gone; a process that has the file open keeps
\* writing to it, unseen
unlinked(ts) ==
    [j \in DOMAIN ts |-> IF ts[j] # NoTask /\ ts[j].kind = "xml"
                         THEN [ts[j] EXCEPT !.linked = FALSE] ELSE ts[j]]

\* getMiotyXMLConfig is called: unlinkSync, then spawn("scp", ...)
XmlCall(i) ==
    /\ Free(i)
    /\ tasks' = [unlinked(tasks) EXCEPT ![i] = NewXmlCall]
    /\ env' = [env EXCEPT !.tmpFile = "absent"]
    /\ UNCHANGED <<storageVars, logVars, wd, hist, budget, xmlVars>>

\* scp opens the target: the file is created, or truncated when it is there
ScpOpens(i) ==
    /\ IsXml(i, "scp")
    /\ tasks' = [tasks EXCEPT ![i].pc = "writing", ![i].linked = TRUE]
    /\ env' = [env EXCEPT !.tmpFile = "partial"]
    /\ UNCHANGED <<storageVars, logVars, wd, hist, budget, xmlVars>>

\* another scp is still writing to the file at the path
OtherWriter(i) ==
    \E j \in Slots \ {i} : IsXml(j, "writing") /\ tasks[j].linked

\* scp has written the last byte and exits with code 0
ScpExits(i) ==
    /\ IsXml(i, "writing")
    /\ tasks' = [tasks EXCEPT ![i].pc = "closed"]
    /\ env' = IF tasks[i].linked
              THEN [env EXCEPT !.tmpFile = IF OtherWriter(i) THEN "partial" ELSE "complete"]
              ELSE env
    /\ UNCHANGED <<storageVars, logVars, wd, hist, budget, xmlVars>>

\* the close handler with code 0: readFileSync throws when there is no file;
\* a file that is not whole does not parse, and the handler rejects without
\* unlinking; a whole file is parsed
XmlReads(i) ==
    /\ IsXml(i, "closed")
    /\ LET c == tasks[i]
       IN  tasks' = [tasks EXCEPT ![i] =
                       CASE env.tmpFile = "absent"  -> [c EXCEPT !.pc = "done", !.outcome = "read"]
                         [] env.tmpFile = "partial" -> [c EXCEPT !.pc = "done", !.outcome = "parse",
                                                                !.own = c.linked]
                         [] OTHER -> [c EXCEPT !.pc = "parsed", !.own = c.linked]]
    /\ UNCHANGED <<storageVars, logVars, wd, env, hist, budget, xmlVars>>

\* after the awaited log entries: unlinkSync, resolve(result)
XmlCleansUp(i) ==
    /\ IsXml(i, "parsed")
    /\ tasks' = [unlinked(tasks) EXCEPT ![i] = [tasks[i] EXCEPT !.pc = "done", !.outcome = "ok",
                                                               !.linked = FALSE]]
    /\ env' = [env EXCEPT !.tmpFile = "absent"]
    /\ UNCHANGED <<storageVars, logVars, wd, hist, budget, xmlVars>>

\* the caller has the result: its place is free for the next call
XmlReturns(i) ==
    /\ IsXml(i, "done")
    /\ budget.http > 0
    /\ SpendTick("http")
    /\ tasks' = [tasks EXCEPT ![i] = NoTask]
    /\ hist' = [hist EXCEPT !.last = tasks[i]]
    /\ UNCHANGED <<storageVars, logVars, wd, env, xmlVars>>

InitXmlCalls ==
    /\ InitStorage
    /\ InitWatchdog
    /\ InitHist
    /\ InitXml
    /\ tasks = <<NoTask, NoTask>>
    /\ env \in Envs
    /\ budget = [NoBudget EXCEPT !.http = MaxRequests]

NextXmlCalls ==
    \/ \E i \in Slots : XmlCall(i)
    \/ \E i \in Slots : ScpOpens(i)
    \/ \E i \in Slots : ScpExits(i)
    \/ \E i \in Slots : XmlReads(i)
    \/ \E i \in Slots : XmlCleansUp(i)
    \/ \E i \in Slots : XmlReturns(i)

SpecXmlCalls == InitXmlCalls /\ [][NextXmlCalls]_vars

---------------------------------------------------------------------------
(* executeSSHCommand alone: one call, from the spawn of ssh on, with the events
   of the child process and of the timer in any order the runtime allows *)

Pending == [state |-> "pending", value |-> <<>>]

\* A plausible slip: a callback in place of the promise, called at every event.
settle_overwrite(promise, outcome) == outcome

\* resolve and reject of a Promise: the first call settles it, later calls do
\* nothing
settle(promise, outcome) == IF promise.state = "pending" THEN outcome ELSE promise

\* the call: the text collected from stdout, the promise it returned, and
\* what has happened to the child process
NewSshCall ==
    [kind |-> "ssh", output |-> <<>>, promise |-> Pending,
     closed |-> FALSE, errored |-> FALSE, timerFired |-> FALSE, killed |-> FALSE,
     \* for the checks: the first event that could settle, the times the
     \* promise changed
     first |-> [event |-> "none", code |-> 0, output |-> <<>>], changes |-> 0]

\* the bookkeeping of an event that calls resolve or reject
Settling(c, event, code, promise) ==
    [c EXCEPT !.promise = promise,
              !.first = IF @.event = "none"
                        THEN [event |-> event, code |-> code, output |-> c.output] ELSE @,
              !.changes = IF promise # c.promise THEN @ + 1 ELSE @]

\* sshProcess.on("close"): resolve(output.trim()) when code === 0, reject
\* otherwise
sshOnClose(c, code) ==
    Settling([c EXCEPT !.closed = TRUE], "close", code,
             settle(c.promise,
                    IF code = 0 THEN [state |-> "fulfilled", value |-> trim(c.output)]
                    ELSE [state |-> "rejected", value |-> <<"SSH command failed">>]))

\* sshProcess.on("error"): reject(err)
sshOnError(c) ==
    Settling([c EXCEPT !.errored = TRUE], "error", 0,
             settle(c.promise, [state |-> "rejected", value |-> <<"spawn error">>]))

\* the timer: sshProcess.kill() and reject; it is never cleared
sshOnTimeout(c) ==
    Settling([c EXCEPT !.timerFired = TRUE, !.killed = TRUE], "timeout", 0,
             settle(c.promise, [state |-> "rejected", value |-> <<"SSH command timeout">>]))

\* what ssh writes to stdout, chunk by chunk
Chunks == {<<"active">>, <<"\n">>, <<" ">>}
\* exit codes: 0, the remote command's, ssh's own; -1 stands for null (the
\* process ended by a signal)
ExitCodes == {0, 3, 255, -1}

IsSsh(i) == tasks[i] # NoTask /\ tasks[i].kind = "ssh"

\* sshProcess.stdout.on("data"): output += data
SshData(i) ==
    /\ IsSsh(i) /\ ~tasks[i].closed /\ ~tasks[i].errored
    /\ Len(tasks[i].output) < MaxChunks
    /\ \E chunk \in Chunks : tasks' = [tasks EXCEPT ![i].output = @ \o chunk]
    /\ UNCHANGED <<storageVars, logVars, wd, env, hist, budget, xmlVars>>

\* the process has ended and its streams are closed
SshClose(i) ==
    /\ IsSsh(i) /\ ~tasks[i].closed
    /\ \E code \in ExitCodes :
          /\ code = -1 => tasks[i].killed \/ tasks[i].errored
          /\ code = 0 => ~tasks[i].errored
          /\ tasks' = [tasks EXCEPT ![i] = sshOnClose(@, code)]
    /\ UNCHANGED <<storageVars, logVars, wd, env, hist, budget, xmlVars>>

\* ssh could not be spawned
SshError(i) ==
    /\ IsSsh(i) /\ ~tasks[i].closed /\ ~tasks[i].errored /\ tasks[i].output = <<>>
    /\ tasks' = [tasks EXCEPT ![i] = sshOnError(@)]
    /\ UNCHANGED <<storageVars, logVars, wd, env, hist, budget, xmlVars>>

\* five minutes have passed since the call
SshTimeout(i) ==
    /\ IsSsh(i) /\ ~tasks[i].timerFired
    /\ tasks' = [tasks EXCEPT ![i] = sshOnTimeout(@)]
    /\ UNCHANGED <<storageVars, logVars, wd, env, hist, budget, xmlVars>>

InitSsh ==
    /\ InitStorage
    /\ InitWatchdog
    /\ InitHist
    /\ InitXml
    /\ tasks = <<NewSshCall>>
    /\ env \in Envs
    /\ budget = NoBudget

NextSsh ==
    \/ \E i \in Slots : SshData(i)
    \/ \E i \in Slots : SshClose(i)
    \/ \E i \in Slots : SshError(i)
    \/ \E i \in Slots : SshTimeout(i)

SpecSsh == InitSsh /\ [][NextSsh]_vars

---------------------------------------------------------------------------
(* The activity log: properties *)

\* C4: the stored activity log never holds more than 100 entries; an entry
\* added to a log of 100 pushes out exactly the oldest one; and the entries
\* stand most recently inserted first. With the insertions numbered, the log
\* is the last min(insertions, 100) of them, the newest at the front.
C4_LogBoundedNewestFirst ==
    /\ Len(activityLogs) <= 100
    /\ Len(activityLogs) = Min(logSeq, 100)
    /\ \A n \in 1..Len(activityLogs) : activityLogs[n].seq = logSeq - n

\* a full log took one more entry, before and after a clearing, and the clock
\* went on between insertions
C4_Witness ==
    /\ Len(activityLogs) = 100
    /\ logSeq > 100
    /\ budget.clears = 0
    /\ activityLogs[1].timestamp > activityLogs[100].timestamp

---------------------------------------------------------------------------
(* extractMiotyParams: properties *)

\* the defaults as the specification lists them
DocumentedDefaults ==
    [uniqueBaseStationId |-> String(<<"unknown">>),
     baseStationName     |-> String(<<"mioty-bsm">>),
     baseStationVendor   |-> String(<<"Miromico">>),
     baseStationModel    |-> String(<<"EDGE-GW-MY-868">>),
     serviceCenterAddr   |-> String(<<"localhost">>),
     serviceCenterPort   |-> String(<<"8", "0", "8", "0">>),
     profile             |-> String(<<"EU1">>),
     tlsAuthRequired     |-> FALSE,
     tlsAllowInsecure    |-> FALSE]

\* the child element k of the input's BaseStationConfig, <<>> when the input
\* has no such element
ElementIn(x, k) ==
    IF x.t = "object" /\ x.BaseStationConfig.t = "object"
    THEN x.BaseStationConfig.f[k] ELSE <<>>

\* C9: extractMiotyParams never throws, whatever the input (null, undefined,
\* an object without BaseStationConfig, a BaseStationConfig with any subset
\* of the fields), and every absent field has its documented default.
C9_NeverThrowsAbsentDefaults ==
    extracted.done =>
        /\ ~extracted.threw
        /\ \A k \in Fields :
              ElementIn(xmlData, k) = <<>> => extracted.value[k] = DocumentedDefaults[k]

\* null was given, and a document with some fields and without others
C9_Witness ==
    /\ extracted.done
    /\ \/ xmlData.t = "null"
       \/ /\ ElementIn(xmlData, "profile") # <<>>
          /\ ElementIn(xmlData, "serviceCenterAddr") = <<>>

\* C10 as stated: every field present in the parsed XML comes back as the
\* element's text, unchanged; each flag is true exactly when its text is
\* "true".
C10_PresentUnchanged ==
    extracted.done =>
        /\ \A k \in StringFields :
              ElementIn(xmlData, k) # <<>> => extracted.value[k] = ElementIn(xmlData, k)[1]
        /\ \A k \in BooleanFields :
              extracted.value[k] = (ElementIn(xmlData, k) = <<String(<<"true">>)>>)

\* C10, amended: every field present with a text that is not empty comes back
\* as that text, unchanged; a field that is absent, or present and empty, has
\* its default; each flag is true exactly when its text is "true".
C10_NonEmptyUnchanged ==
    extracted.done =>
        /\ \A k \in StringFields :
              LET el == ElementIn(xmlData, k)
              IN  extracted.value[k] = IF el # <<>> /\ el[1].v # <<>> THEN el[1]
                                       ELSE DocumentedDefaults[k]
        /\ \A k \in BooleanFields :
              extracted.value[k] = (ElementIn(xmlData, k) = <<String(<<"true">>)>>)

\* the document that holds profile US1 and nothing else
C10_Witness ==
    /\ extracted.done
    /\ xmlData = Document("object", ConfigObject([NoFields EXCEPT !.profile = <<String(<<"US1">>)>>]))
    /\ extracted.value.profile = String(<<"US1">>)
    /\ extracted.value.tlsAuthRequired = FALSE
    /\ extracted.value.serviceCenterAddr = String(<<"localhost">>)

---------------------------------------------------------------------------
(* Discovery and provisioning: properties *)

\* C1 as stated: one pass of discoverAndSetup probes the candidates in list
\* order, binds the watchdog to the first address whose probe succeeds, and
\* probes no address after it: the pass has probed a prefix of the list, at
\* most one probe has succeeded, and if one has, it is the last probe of the
\* pass and the watchdog is bound to its address.
C1_StopsAtFirstResponder ==
    \A c \in Calls("auto") :
        c.ctx = "discover" =>
            /\ c.probed = SubSeq(possibleIPs, 1, Len(c.probed))
            /\ Len(c.answered) <= 1
            /\ c.answered # <<>> =>
                  /\ c.probed[Len(c.probed)] = c.answered[1]
                  /\ wd.edgeCardIp = c.answered[1]

\* C2: setupCompleted is true only after a run of performCompleteSetup in
\* which setupConnection, startConnection, enableConnection, enablePf and
\* startPf succeeded in that order; a run that failed leaves it as it was;
\* and every run starts at setupConnection, whatever an earlier run did: a
\* call that is provisioning has done the steps before its position, all of
\* them, in order, and none else.
C2_CompletedOnlyAfterFiveSteps ==
    LET order == <<"setupConnection", "startConnection", "enableConnection",
                   "enablePf", "startPf">>
        stepOf(pc) == IF pc = "setupConnection:apply" THEN "setupConnection" ELSE pc
    IN  /\ wd.setupCompleted => hist.setupBy = order
        /\ ~wd.setupCompleted => hist.setupBy = <<>>
        /\ \A i \in Slots :
              (tasks[i].kind = "auto" /\ stepOf(tasks[i].pc) \in Range(order)) =>
                  /\ Len(tasks[i].steps) < Len(order)
                  /\ tasks[i].steps = SubSeq(order, 1, Len(tasks[i].steps))
                  /\ stepOf(tasks[i].pc) = order[Len(tasks[i].steps) + 1]
                  /\ Len(tasks[i].steps) > 0 => ~wd.setupCompleted \/ hist.setupBy = order

\* a run failed, and a later tick's run went through all five steps
C2_Witness ==
    /\ wd.setupCompleted
    /\ hist.setupThrew
    /\ hist.last.kind = "auto" /\ hist.last.caught = 0
    /\ hist.last.steps = SetupOrder

\* C3: a configuration stored by the watchdog cycle or by GET /api/config
\* carries the pinned unique identifier, whatever the document on the card
\* holds.
C3_RemoteWritesPinUniqueId ==
    baseStationConfig.writer \in {"watchdog", "GET /api/config"} =>
        baseStationConfig.uniqueBaseStationId = String(<<"9C-65-F9-FF-FE-55-44-33">>)

\* GET /api/config stored what a document with another identifier holds
C3_Witness ==
    /\ baseStationConfig.writer = "GET /api/config"
    /\ optFirst(env.doc.BaseStationConfig.f.uniqueBaseStationId) = ForeignUniqueId
    /\ baseStationConfig.baseStationName = String(<<"bs-lab">>)
    /\ baseStationConfig.profile = String(<<"US1">>)

---------------------------------------------------------------------------
(* The reconciliation cycle: properties *)

\* C6 as stated: in a cycle that reached the service-state query, if the
\* service is inactive the watchdog calls startPf, with a WARN entry before
\* and, when it succeeded, an INFO entry after, and stores "running";
\* otherwise it calls no startPf and stores "running" when the service is
\* active and "stopped" when it is not.
C6_RestartsWhenInactive ==
    \A c \in Calls("watchdog") :
        (c.pc = "returned" /\ c.query.asked) =>
            IF c.query.service = "inactive"
            THEN /\ c.startIssued
                 /\ Len(c.levels) >= 2 /\ c.levels[2] = "WARN"
                 /\ c.caught = 0 => /\ Len(c.levels) >= 3 /\ c.levels[3] = "INFO"
                                    /\ c.stored = "running"
            ELSE /\ ~c.startIssued
                 /\ c.stored = IF c.query.service = "active" THEN "running" ELSE "stopped"

---------------------------------------------------------------------------
(* The stored status: properties *)

\* C5 as stated: the stored status record always equals the field-set given
\* by one single call of updateBaseStationStatus, the last one, with nothing
\* in it from another call.
C5_RecordOfOneWrite ==
    /\ baseStationStatus.status = hist.statusWrite.status
    /\ \A f \in StatusFields :
          baseStationStatus[f] = IF Nullish(hist.statusWrite[f]) THEN NullV
                                 ELSE hist.statusWrite[f]

\* C5, amended: a call of updateBaseStationStatus replaces, in one piece,
\* the fields it gives and keeps the others, so the stored record holds the
\* status of the last call and, in every other field, the value of the last
\* call that gave that field.
C5_EachFieldOfItsLastWrite ==
    /\ baseStationStatus.status = hist.statusWrite.status
    /\ \A f \in StatusFields : baseStationStatus[f] = hist.fieldLast[f]

\* two cycles and a start or stop request have written, one of them while
\* another call was in flight, and all are over
C5_Witness ==
    /\ Idle
    /\ hist.writes >= 3
    /\ hist.concurrent
    /\ baseStationStatus.uptime = cardUptime
    /\ baseStationStatus.lastStarted = defaultStatus.lastStarted

---------------------------------------------------------------------------
(* Discovery, binding and re-entry: properties *)

\* a step in which the call in place i, a discovery pass, ends
PassEnds(i) ==
    /\ tasks[i] # NoTask /\ tasks[i].kind = "auto" /\ tasks[i].ctx = "discover"
    /\ tasks'[i] = NoTask

\* C11 as stated: whenever a probe succeeds during a discovery pass, by the
\* end of that pass the probed address is the watchdog's bound address, the
\* stored connection status is "connected", and a CONN entry naming the
\* address has been written.
C11_ProbeSuccessBindsAndConnects ==
    [][ \A i \in Slots :
          PassEnds(i) =>
              \A k \in 1..Len(hist'.last.answered) :
                  LET ip == hist'.last.answered[k]
                  IN  /\ wd'.edgeCardIp = ip
                      /\ connection'.status = "connected"
                      /\ \E n \in 1..Len(activityLogs') :
                            /\ activityLogs'[n].level = "CONN"
                            /\ activityLogs'[n].message = <<"EdgeCard discovered at ", ip>>
      ]_vars

\* a step that starts a run of performCompleteSetup for the address ip
SetupStartsFor(ip) ==
    \E i \in Slots :
        /\ tasks'[i] # NoTask /\ tasks'[i].kind = "auto"
        /\ tasks'[i].pc = "setupConnection" /\ tasks'[i].ip = ip
        /\ tasks[i] = NoTask \/ tasks[i].pc # "setupConnection"

\* C12 as stated: each time the watchdog binds to an address, also to
\* another one after an earlier one was provisioned, a provisioning run is
\* started for that address; and once provisioning has completed, no run is
\* started for the bound address again.
C12_ProvisionedOncePerBoundAddress ==
    [][ /\ (wd'.edgeCardIp # wd.edgeCardIp /\ wd'.edgeCardIp # "null")
              => SetupStartsFor(wd'.edgeCardIp)
        /\ (wd.setupCompleted /\ wd'.edgeCardIp = wd.edgeCardIp)
              => ~SetupStartsFor(wd.edgeCardIp)
      ]_vars

\* a step in which a timer calls autoSetupAndConnect
DiscoveryTick == budget'.auto = budget.auto - 1

\* the bound address did not answer the last call: a reconciliation cycle
\* whose ssh command failed ended in its catch block
BindingLost ==
    /\ hist.last # NoTask
    /\ hist.last.kind = "watchdog"
    /\ hist.last.failed /\ hist.last.caught > 0

\* C19 as stated: a discovery tick at which the stored status is not
\* "connected" probes the candidate list, and so does a discovery tick that
\* follows a reconciliation cycle whose commands against the bound address
\* failed.
C19_DiscoveryReenteredWhenLost ==
    [][ (DiscoveryTick /\ (connection.status # "connected" \/ BindingLost))
            => \E i \in Slots : tasks'[i] # NoTask /\ tasks'[i].pc = "probe" /\ tasks'[i].idx = 1
      ]_vars

---------------------------------------------------------------------------
(* The temporary file of getMiotyXMLConfig: properties *)

\* C13 as stated: once getMiotyXMLConfig has failed, on whatever path, the
\* temporary file /tmp/mioty_bs_config.xml does not exist.
C13_NoTempFileAfterFailure ==
    \A i \in Slots :
        (tasks[i] # NoTask /\ tasks[i].kind \in CfgKinds /\ tasks[i].pc = "is-active"
         /\ ~tasks[i].xmlOk)
            => env.tmpFile = "absent"

---------------------------------------------------------------------------
(* Host provisioning: properties *)

\* C14 as stated: over any number of setupConnection runs, also after a
\* failed run and when the existence check itself errors, the profile is
\* created only when none named "mioty" exists, so the host never holds more
\* than one.
C14_AtMostOneProfile == env.profiles <= 1

\* C15: each of the three tagged rules is present at most once, whatever
\* provisioning runs and dispatcher invocations there were; an invocation
\* inserts rules only when no rule carrying the tag exists, and then only if
\* it is for the interface of the script; an invocation for another
\* interface changes nothing.
C15_RulesAtMostOnce ==
    [][ /\ env'.firewall.forward <= 1 /\ env'.firewall.dns <= 1 /\ env'.firewall.masq <= 1
        /\ env'.firewall # env.firewall =>
              /\ hist'.dispatched = env.script
              /\ <<env'.firewall.forward, env'.firewall.dns, env'.firewall.masq>>
                     # <<env.firewall.forward, env.firewall.dns, env.firewall.masq>>
                 => env.firewall.forward + env.firewall.dns + env.firewall.masq = 0
      ]_vars

\* the script was run three times, the last time for another interface, after
\* a provisioning run that failed and one that completed; the rules are there
C15_Witness ==
    /\ budget.dispatches = 0
    /\ hist.dispatched # env.script
    /\ hist.setupThrew /\ wd.setupCompleted
    /\ env.firewall = AllRules

---------------------------------------------------------------------------
(* executeSSHCommand: properties *)

\* C16: executeSSHCommand settles exactly once per call. It is fulfilled, with
\* the trimmed stdout, exactly when the first of close, error and timeout is a
\* close with exit code 0; it is rejected when the first is a close with
\* another code, a spawn error or the timeout, and the timeout kills the
\* process; events after the first leave the outcome as it is.
C16_SettlesOnceByFirstEvent ==
    \A i \in Slots :
        tasks[i].kind = "ssh" =>
            LET c == tasks[i]
            IN  /\ c.changes <= 1
                /\ c.first.event = "none" <=> c.promise.state = "pending"
                /\ c.promise.state = "fulfilled" <=> (c.first.event = "close" /\ c.first.code = 0)
                /\ c.promise.state = "fulfilled" =>
                      /\ c.promise.value = trim(c.first.output)
                      /\ c.promise.value # <<>> =>
                            /\ c.promise.value[1] \notin WhiteSpace
                            /\ c.promise.value[Len(c.promise.value)] \notin WhiteSpace
                /\ c.first.event = "timeout" =>
                      c.promise = [state |-> "rejected", value |-> <<"SSH command timeout">>]
                /\ c.first.event = "error" => c.promise.state = "rejected"
                /\ (c.first.event = "close" /\ c.first.code # 0) => c.promise.state = "rejected"
                /\ c.timerFired => c.killed

\* ssh closed with code 0 after writing "active" and a newline, and the timer
\* fired afterwards: the call stays fulfilled with "active"
C16_Witness ==
    \E i \in Slots :
        /\ tasks[i].kind = "ssh"
        /\ tasks[i].closed /\ tasks[i].timerFired
        /\ tasks[i].first = [event |-> "close", code |-> 0, output |-> <<"active", "\n">>]
        /\ tasks[i].promise = [state |-> "fulfilled", value |-> <<"active">>]

---------------------------------------------------------------------------
(* Reconciliation of the stored configuration: properties *)

\* the fields of the configuration that hold text
TextFields == {"baseStationName", "baseStationVendor", "baseStationModel",
               "serviceCenterAddr", "profile"}

\* the last call was a reconciliation cycle that ran to its end without
\* entering a catch block, and nothing has written the configuration since
ReconciledLast ==
    /\ Idle
    /\ hist.last # NoTask
    /\ hist.last.kind = "watchdog"
    /\ hist.last.caught = 0
    /\ hist.last.stored # "none"
    /\ baseStationConfig.writer = "watchdog"

\* C17 as stated: after a successful reconciliation cycle the stored
\* configuration has the value the cycle extracted in every field but the
\* unique identifier: the five texts, the port (as the number its text reads
\* as), tlsAuthRequired whether true or false, and tlsAllowInsecure.
C17_StoredEqualsExtracted ==
    ReconciledLast =>
        LET c == hist.last.data.config
        IN  /\ \A k \in TextFields : baseStationConfig[k] = c[k]
            /\ baseStationConfig.serviceCenterPort = parseIntOr8080(c.serviceCenterPort)
            /\ baseStationConfig.tlsAuthRequired = Bool(c.tlsAuthRequired)
            /\ "tlsAllowInsecure" \in DOMAIN baseStationConfig
            /\ "tlsAllowInsecure" \in DOMAIN baseStationConfig =>
                  baseStationConfig.tlsAllowInsecure = Bool(c.tlsAllowInsecure)

---------------------------------------------------------------------------
(* The service-center port: properties *)

\* the text of the port element of the input, <<>> when there is none
PortText ==
    LET el == ElementIn(xmlData, "serviceCenterPort")
    IN  IF el = <<>> THEN <<>> ELSE el[1].v

\* the texts that are an integer from the first token to the last
IntegerTexts == { <<"1", "8", "8", "3">>, <<"0">> }

\* the number a text begins with, for the texts of the inputs
LeadingNumber(text) ==
    CASE text = <<"1", "8", "8", "3">> -> 1883
      [] text = <<"1", "2", "a", "b", "c">> -> 12
      [] OTHER -> 0

---------------------------------------------------------------------------
(* stop(): properties *)

\* stop() has been called after start(): both interval handles are cleared
Stopped == wd.started /\ ~wd.connectionInterval /\ ~wd.watchdogInterval

\* C20 as stated: once stop() has been called, however soon after start(), no
\* tick starts a discovery or provisioning cycle and none starts a
\* reconciliation cycle.
C20_NoCycleStartsAfterStop ==
    [][Stopped => budget'.auto = budget.auto /\ budget'.watchdog = budget.watchdog]_vars

---------------------------------------------------------------------------
(* Retrying: properties *)

\* from here on every probe is answered and every command succeeds, and the
\* discovery timer has a tick to come
AllSucceedFromNow == budget.faults = 0 /\ budget.probes = 0 /\ budget.auto > 0

\* C21: there is no permanent failure state. With both timers scheduled
\* fairly, from a state after which the probes are answered and every command
\* succeeds, a state is reached in which the provisioning flag is true and
\* the stored connection status is "connected", whatever failed before.
C21_EventuallyProvisionedAndConnected ==
    AllSucceedFromNow ~> (wd.setupCompleted /\ connection.status = "connected")

\* a provisioning run threw, probes went unanswered, and after that the flag
\* is true and the status "connected"
C21_Witness ==
    /\ hist.setupThrew
    /\ budget.faults = 0 /\ budget.probes < MaxProbeFailures
    /\ wd.setupCompleted
    /\ connection.status = "connected"

---------------------------------------------------------------------------
(* Overlapping ticks: properties *)

\* place i is the one a new call would take
NextPlace(i) == tasks[i] = NoTask /\ \A j \in Slots : j < i => tasks[j] # NoTask

---------------------------------------------------------------------------
(* A failing step of setupConnection: properties *)

\* the call in place i is in setupConnection past the existence check, and
\* one of its commands fails in this step
ApplyFails(i) ==
    /\ tasks[i] # NoTask
    /\ tasks[i].kind = "auto" /\ tasks[i].pc = "setupConnection:apply"
    /\ budget'.faults < budget.faults

\* the call that was in place i, after the step
After(i) == IF tasks'[i] = NoTask THEN hist'.last ELSE tasks'[i]

\* C23 as stated: when a command of setupConnection fails, the failure is
\* logged, the run goes on to the next step of provisioning, and the flag is
\* not set.
C23_FailureLoggedRunGoesOn ==
    [][\A i \in Slots :
          ApplyFails(i) =>
              /\ After(i).errs > tasks[i].errs
              /\ tasks'[i] # NoTask /\ tasks'[i].pc = "startConnection"
              /\ ~wd'.setupCompleted]_vars

\* C23, amended: interface detection cannot fail the run (eth0 is used when
\* no method finds an interface). When the profile creation, a modify
\* command, a command installing the firewall script or the reload fails, the
\* failure is logged at ERROR and the run of performCompleteSetup ends there:
\* no later step is executed (the call goes on to the next candidate address
\* or returns), and the flag is left as it was.
C23_FailureLoggedRunAborted ==
    [][\A i \in Slots :
          /\ (tasks[i] # NoTask /\ tasks[i].kind = "auto" /\ tasks[i].pc = "setupConnection")
                => (tasks'[i] # NoTask /\ tasks'[i].pc = "setupConnection:apply")
          /\ ApplyFails(i) =>
                /\ After(i).errs > tasks[i].errs
                /\ hist'.setupThrew
                /\ tasks'[i] = NoTask \/ tasks'[i].pc = "probe"
                /\ After(i).steps = <<>>
                /\ wd'.setupCompleted = wd.setupCompleted
                /\ env'.enabled = env.enabled /\ env'.service = env.service]_vars

\* a run was aborted in setupConnection before the script was installed, and
\* its call has gone on to the next address: no later step has touched the
\* card, the flag is false
C23_Witness ==
    /\ hist.setupThrew
    /\ \E c \in Calls("auto") : c.caught > 0 /\ c.errs > 0 /\ c.pc = "probe" /\ c.steps = <<>>
    /\ env.script = "none" /\ ~env.enabled
    /\ ~wd.setupCompleted

---------------------------------------------------------------------------
(* The reconciliation tick: properties *)

\* this step is a tick of the reconciliation timer
WatchdogTick == budget'.watchdog = budget.watchdog - 1

\* C24: a reconciliation tick starts a cycle against the bound address
\* whenever the watchdog holds an address and a command object, whatever the
\* provisioning flag; when it holds none, the tick starts no command and
\* leaves the stored config, status, system info, connection and the
\* activity log as they are.
C24_CycleIffBound ==
    [][WatchdogTick =>
          IF wd.edgeCardIp # "null" /\ wd.miotyCommands # "null"
          THEN \E i \in Slots :
                  /\ tasks[i] = NoTask /\ tasks'[i] # NoTask
                  /\ tasks'[i].kind = "watchdog" /\ tasks'[i].pc = "hostname"
                  /\ tasks'[i].ip = wd.edgeCardIp
          ELSE /\ tasks' = tasks
               /\ UNCHANGED <<connection, baseStationConfig, baseStationStatus, systemInfo,
                              activityLogs, logSeq, env>>]_vars

\* a cycle has stored the configuration while the provisioning flag was
\* false all along
C24_Witness ==
    /\ ~wd.setupCompleted
    /\ wd.edgeCardIp # "null"
    /\ baseStationConfig.writer = "watchdog"
    /\ hist.last # NoTask /\ hist.last.kind = "watchdog" /\ hist.last.stored # "none"

---------------------------------------------------------------------------
(* A cycle whose XML transfer fails: properties *)

\* the watchdog cycle in place i is at one of the ssh commands of
\* getEdgeCardConfig
AtConfigCommand(i) ==
    /\ tasks[i] # NoTask /\ tasks[i].kind = "watchdog"
    /\ tasks[i].pc \in {"hostname", "uptime", "free", "model", "is-active", "is-enabled"}

\* C25 as stated: when the XML transfer or its parsing has failed and the
\* last ssh command of getEdgeCardConfig succeeds, the cycle stores the
\* configuration of defaults with the pinned unique identifier and goes on to
\* the service status; when an ssh command of getEdgeCardConfig fails, the
\* cycle ends and has written neither the configuration nor the status.
C25_DefaultsStoredOrNothing ==
    [][\A i \in Slots :
          AtConfigCommand(i) =>
              IF budget'.faults < budget.faults
              THEN /\ tasks'[i] = NoTask
                   /\ UNCHANGED <<baseStationConfig, baseStationStatus>>
              ELSE (tasks[i].pc = "is-enabled" /\ ~tasks[i].xmlOk) =>
                      /\ tasks'[i] # NoTask /\ tasks'[i].pc = "getMiotyStatus"
                      /\ baseStationConfig'.writer = "watchdog"
                      /\ baseStationConfig'.uniqueBaseStationId = PinnedUniqueId
                      /\ \A k \in TextFields : baseStationConfig'[k] = Defaults[k]
                      /\ baseStationConfig'.serviceCenterPort = 8080
                      /\ baseStationConfig'.tlsAuthRequired = Bool(Defaults.tlsAuthRequired)
                      /\ "tlsAllowInsecure" \in DOMAIN baseStationConfig'
                      /\ "tlsAllowInsecure" \in DOMAIN baseStationConfig' =>
                            baseStationConfig'.tlsAllowInsecure = Bool(Defaults.tlsAllowInsecure)]_vars

---------------------------------------------------------------------------
(* The bound address: properties *)

\* the call in place i probes, in this step, the address ip, and it answers
ProbeAnswers(i, ip) ==
    /\ tasks[i] # NoTask /\ tasks[i].kind = "auto" /\ tasks[i].pc = "probe"
    /\ possibleIPs[tasks[i].idx] = ip
    /\ Len(After(i).answered) = Len(tasks[i].answered) + 1
    /\ After(i).answered[Len(After(i).answered)] = ip

\* C26 as stated: the bound address is only ever obtained by probing: it is
\* null or a candidate of the list, and every step that changes it is a
\* probe of the new address that was answered.
C26_BoundOnlyByAnsweredProbe ==
    [][/\ wd'.edgeCardIp = "null" \/ \E n \in DOMAIN possibleIPs : possibleIPs[n] = wd'.edgeCardIp
       /\ wd'.edgeCardIp # wd.edgeCardIp =>
             \E i \in Slots : ProbeAnswers(i, wd'.edgeCardIp)]_vars

\* C27 as stated: whenever the watchdog holds both a bound address and a
\* command object, the bound address is the address the command object was
\* made with.
C27_BoundIsCommandAddress ==
    (wd.edgeCardIp # "null" /\ wd.miotyCommands # "null") => wd.edgeCardIp = wd.miotyCommands

---------------------------------------------------------------------------
(* Concurrent getMiotyXMLConfig calls: properties *)

\* C28 as stated: whatever the interleaving, a call whose own scp exited with
\* code 0 resolves, and with the content of the file its own transfer wrote:
\* it is not rejected for a file that is missing or cut short, and what it
\* read is not another call's file.
C28_ResolvesWithOwnFile ==
    \A i \in Slots :
        (tasks[i] # NoTask /\ tasks[i].kind = "xml" /\ tasks[i].pc = "done") =>
            tasks[i].outcome = "ok" /\ tasks[i].own

---------------------------------------------------------------------------
(* POST /api/base-station/start and /stop: properties *)

\* the call that ended last is a POST /api/base-station/stop whose
\* `systemctl stop mioty_bs` was run on the card and succeeded, and no other
\* write of the status has come after the handler's
ManuallyStopped ==
    /\ hist.last # NoTask
    /\ hist.last.kind = "post"
    /\ hist.last.ip # "null"
    /\ ~hist.last.failed
    /\ baseStationStatus.writer = "POST stop"

\* no request arrives in the step and none is being handled
NoRequest ==
    /\ budget'.http = budget.http
    /\ \A i \in Slots : tasks[i] = NoTask \/ tasks[i].kind # "post"

\* C29 as stated: after a manual stop whose remote command succeeded, as
\* long as no start is requested the service on the card stays stopped, the
\* stored status stays "stopped", and no watchdog cycle comes to its start
\* command.
C29_ManualStopStays ==
    [][(ManuallyStopped /\ NoRequest) =>
          /\ env'.service # "active"
          /\ baseStationStatus'.status = "stopped"
          /\ \A i \in Slots : tasks'[i] = NoTask \/ tasks'[i].pc # "startPf"]_vars

\* the step ends a POST /api/base-station/start or /stop with a write of
\* the stored status
PostWrites ==
    /\ hist'.writes = hist.writes + 1
    /\ hist'.last # NoTask
    /\ hist'.last.kind = "post"

\* C30 as stated: the handlers write the stored status only when the
\* connection is "connected" and the remote command succeeded; when the
\* connection is not established or the command failed, the stored status
\* is what it was.
C30_StatusOnlyAfterSuccess ==
    [][/\ PostWrites => (hist'.last.ip # "null" /\ ~hist'.last.failed)
       /\ \A i \in Slots :
             (tasks[i] # NoTask /\ tasks[i].kind = "post"
                  /\ tasks'[i] = NoTask /\ hist'.last.failed) =>
                 baseStationStatus'.status = baseStationStatus.status]_vars

============================================================================
